---- MODULE Spec2Model ----
(***************************************************************************)
(* A state-machine model of @discord-rose/lavalink: the per-guild Player,  *)
(* the Node connection and the LavalinkManager that owns both.             *)
(*                                                                         *)
(* JavaScript runs one callback at a time, so every action below is one    *)
(* synchronous run of code: from a call (or an event delivery) up to the   *)
(* first await it suspends on, or from the completion of an awaited        *)
(* promise up to the next await.  The suspended half of an async function  *)
(* is kept in `tasks` until the action that resumes it.                    *)
(***************************************************************************)
EXTENDS Integers, Sequences, FiniteSets, TLC

\* ------------------------------------------------------------------ bounds
MaxPlayers == 2      \* Player objects constructed in one run
MaxQueue == 2        \* longest queue
MaxTasks == 1        \* suspended async calls at the same time
NumTracks == 2       \* distinct track identities
NumNodes == 1        \* nodes of nodeOptions
MaxSockets == 2      \* WebSocket objects of one node that can still raise an event
MaxDelay == 2        \* longest retryDelay / connectionTimeout, in clock ticks
MaxRetrysBound == 2  \* largest maxRetrys option

\* --------------------------------------------------------------- constants
NullPos == -1                 \* queuePosition / position === null
Unset == -1                   \* an option left undefined; a timer that is not armed
\* The clock counts ticks of 7500 ms: the defaults of Node.ts (15000 ms each).
DefaultConnectionTimeout == 2
DefaultRetryDelay == 2
DefaultMaxRetrys == 10
NormalClosure == 1000         \* the close code of destroy()
AbnormalClosure == 1006
DefaultVolume == 100
MaxVolume == 1000

ReconnectTimer == 0           \* the interval of Node.reconnect, among the timers of a node

Null == "null"
Guilds == {"g1", "g2"}
Channels == {"vc1", "vc2"}      \* voice channel ids; Null is "no channel"
PlayerIds == 1..MaxPlayers
NodeIds == 0..(NumNodes - 1)
TrackIds == 1..NumTracks

PlayerState == {"DISCONNECTED", "CONNECTING", "CONNECTED", "PAUSED", "PLAYING", "DESTROYED"}
NodeState == {"DISCONNECTED", "CONNECTING", "RECONNECTING", "CONNECTED", "DESTROYED"}
LoopType == {"off", "single", "queue"}
\* a state check that lets CONNECTING through
ActiveOrConnecting == {"CONNECTING", "CONNECTED", "PAUSED", "PLAYING"}
\* the states every playback command accepts
Active == {"CONNECTED", "PAUSED", "PLAYING"}

\* ------------------------------------------------------------ queue entries
\* A queue entry is a Track (with its base64 handle `track`, which a server
\* answer may leave empty) or a TrackPartial (no handle at all).
Track(i) == [kind |-> "Track", id |-> i, track |-> TRUE]
EmptyTrack(i) == [kind |-> "Track", id |-> i, track |-> FALSE]
TrackPartial(i) == [kind |-> "TrackPartial", id |-> i, track |-> FALSE]
\* queue[i] past the end of the array, or currentTrack === null
Undefined == [kind |-> "undefined", id |-> 0, track |-> FALSE]
Entries == {Track(i) : i \in TrackIds} \cup {EmptyTrack(i) : i \in TrackIds}
             \cup {TrackPartial(i) : i \in TrackIds}

\* `x instanceof TrackClass && x.track`
IsTrack(e) == e.kind = "Track" /\ e.track
\* queue[i] with a 0-based index (NullPos and out-of-range give undefined)
At(queue, i) == IF i >= 0 /\ i < Len(queue) THEN queue[i + 1] ELSE Undefined
\* queue[i] = e on the array (0-based); JavaScript grows the array on a write
\* past its end, which the callers here never do with a live index
SetAt(queue, i, e) == IF i >= 0 /\ i < Len(queue) THEN [queue EXCEPT ![i + 1] = e] ELSE queue

\* ------------------------------------------------------------------- state
VARIABLES
  players,         \* every Player object constructed so far, by identity
  managerPlayers,  \* LavalinkManager.players: guild -> Player identity (0: no entry)
  nodes,           \* every Node object, by identifier
  managerNodes,    \* LavalinkManager.nodes: the identifiers in the pool
  tasks,           \* suspended async calls, each waiting for a promise
  sent,            \* frames handed to a node's socket by the last action
  emitted,         \* events delivered to listeners by the last action
  thrown,          \* error the last action's call threw or rejected with ("" if none)
  last,            \* the last action: its operation and the object it ran on
  resolve,         \* the manager's resolveTrack call: its argument, the search result, its outcome
  connectAll       \* the manager's connectNodes call, per node: attempts, its interval, its promise

vars == <<players, managerPlayers, nodes, managerNodes, tasks, sent, emitted, thrown, last, resolve,
         connectAll>>

\* The mutable part of the program as one value, so that a handler that calls
\* other handlers is a composition of functions on it.  `r` is the outcome of
\* the innermost call made so far ("" when it returned, else its error).
World == [players |-> players, managerPlayers |-> managerPlayers, nodes |-> nodes,
          managerNodes |-> managerNodes, tasks |-> tasks, connectAll |-> connectAll,
          sent |-> <<>>, emitted |-> {}, thrown |-> "", r |-> ""]

\* The timers of a node: the connection timeout of socket i is timer i, then
\* the interval of reconnect() and the interval of connectNodes.
ConnectAllTimer == MaxSockets + 1
TimerIds == 0..ConnectAllTimer
TimerValue(ns, ca, n, id) ==
  IF id = ReconnectTimer THEN ns[n].reconnectTimeout
  ELSE IF id = ConnectAllTimer THEN (IF n \in DOMAIN ca THEN ca[n].interval ELSE Unset)
  ELSE ns[n].sockets[id].timer
TimerDuration(node, id) ==
  IF id \in 1..MaxSockets THEN node.connectionTimeout ELSE node.retryDelay

\* The order in which the armed timers of node n were armed, after an action
\* that leaves the world w: timers that the action left alone keep their
\* place, and the timers it armed come last, a connection timeout before an
\* interval (setTimeout in connect() runs before the interval that called it
\* is put back, and before setInterval in connectNodes).
ArmedOrder(w, n) ==
  LET keeps(id) == /\ TimerValue(w.nodes, w.connectAll, n, id) # Unset
                   /\ TimerValue(w.nodes, w.connectAll, n, id) = TimerValue(nodes, connectAll, n, id)
      arms(id) == /\ TimerValue(w.nodes, w.connectAll, n, id) # Unset
                  /\ TimerValue(w.nodes, w.connectAll, n, id) # TimerValue(nodes, connectAll, n, id)
      inArmingOrder == [k \in 1..(MaxSockets + 2) |->
                          IF k <= MaxSockets THEN k
                          ELSE IF k = MaxSockets + 1 THEN ReconnectTimer ELSE ConnectAllTimer]
  IN SelectSeq(nodes[n].order, keeps) \o SelectSeq(inArmingOrder, arms)

\* a timer that is due fires when no timer of the same delay that was armed
\* before it is due as well (timers of one delay fire in the order they were
\* armed in; timers of different delays that are due in the same tick fire in
\* either order)
MayFire(n, id) ==
  LET node == nodes[n]
      place(x) == CHOOSE k \in 1..Len(node.order) : node.order[k] = x
  IN \A other \in TimerIds \ {id} :
       (TimerValue(nodes, connectAll, n, other) = 0
          /\ TimerDuration(node, other) = TimerDuration(node, id))
         => place(id) < place(other)

\* the state an action leaves, with no more suspended calls than the bound
Commit(w, op, id) ==
  \* a handler that runs while no call is suspended may suspend several at once
  /\ Cardinality(w.tasks) <= MaxTasks \/ tasks = {}
  /\ players' = w.players
  /\ managerPlayers' = w.managerPlayers
  /\ nodes' = [n \in DOMAIN w.nodes |->
                [w.nodes[n] EXCEPT !.order = IF op = "tick" THEN @ ELSE ArmedOrder(w, n)]]
  /\ managerNodes' = w.managerNodes
  /\ tasks' = w.tasks
  /\ sent' = w.sent
  /\ emitted' = w.emitted
  /\ thrown' = w.thrown
  /\ last' = [op |-> op, id |-> id]
  /\ connectAll' = w.connectAll
  /\ UNCHANGED resolve

\* ------------------------------------------------------------------ frames
NoVolume == -1                \* a play frame without a volume key
Frame(op, guildId, track, volume, pause) ==
  [op |-> op, guildId |-> guildId, track |-> track, volume |-> volume, pause |-> pause]
\* PlayOptions: volume (NoVolume when absent) and pause
NoOptions == [volume |-> NoVolume, pause |-> FALSE]

\* A suspended async call of player p: where it resumes (pc), the queue index
\* it holds in a local (pos), whether the promise it awaits fulfils (ok), the
\* PlayOptions it was called with, and whether the array its pending
\* `this.queue[pos] = await ...` will write to is still this.queue (stale
\* when this.queue has been replaced by a new array since).
Task(p, pc, pos, ok, opts) ==
  [p |-> p, pc |-> pc, pos |-> pos, ok |-> ok, opts |-> opts, stale |-> FALSE,
   arg |-> "", reason |-> ""]

Throw(w, msg) == [w EXCEPT !.thrown = msg]
Spawn(w, t) == [w EXCEPT !.tasks = @ \cup {t}]
Finish(w, t) == [w EXCEPT !.tasks = @ \ {t}]

\* ------------------------------------------------------------------ Player
\* Player.ts 160-213 and 233-243: the fields of a new Player
NewPlayer(guildId, voiceChannelId, node, opt) ==
  [state |-> "DISCONNECTED", queue |-> <<>>, queuePosition |-> NullPos, loop |-> "off",
   position |-> NullPos, volume |-> DefaultVolume, currentVoiceChannel |-> Null,
   lastVoiceState |-> Null, isStage |-> Null, isSpeaker |-> Null, sentPausedPlay |-> Null,
   guildId |-> guildId, voiceChannelId |-> voiceChannelId, node |-> node,
   becomeSpeaker |-> opt.becomeSpeaker, moveBehavior |-> opt.moveBehavior,
   stageMoveBehavior |-> opt.stageMoveBehavior,
   listeners |-> TRUE,          \* the manager's forwarding listeners are registered
   connectPromise |-> "none",   \* the promise of connect(): none | pending | resolved | rejected
   connectListeners |-> FALSE,  \* connect()'s onConnect and onDestroy are registered
   connectTimer |-> FALSE,      \* connect()'s timeout is armed
   filters |-> "{}"]

\* get currentTrack
currentTrack(pl) == IF pl.queuePosition # NullPos THEN At(pl.queue, pl.queuePosition) ELSE Undefined

\* x++ on a field that may hold null: null converts to 0
PlusPlus(x) == IF x = NullPos THEN 1 ELSE x + 1

PlayerEvent(p, type, reason) == [kind |-> "player", id |-> p, type |-> type, reason |-> reason]
\* this.emit(type, data): reaches the listeners still registered on the Player
Emit(w, p, type, reason) ==
  IF w.players[p].listeners THEN [w EXCEPT !.emitted = @ \cup {PlayerEvent(p, type, reason)}] ELSE w

\* a send that does not look at the state of the node
NodeSendUnchecked(w, n, frame, ok) ==
  LET node == w.nodes[n] IN
  IF node.ws = 0 THEN [w EXCEPT !.r = "never settles"]
  ELSE IF node.sockets[node.ws].phase # "open" THEN [w EXCEPT !.r = "WebSocket is not open"]
  ELSE [w EXCEPT !.sent = Append(@, frame), !.r = IF ok THEN "" ELSE "write error"]

\* Node.send up to the socket write: rejects unless the node is CONNECTED,
\* else hands the frame to this.ws; the write later succeeds or fails (ok).
\* `this.ws?.send` with this.ws null writes nothing and never settles.
NodeSend(w, n, frame, ok) ==
  LET node == w.nodes[n] IN
  IF node.state # "CONNECTED"
    THEN [w EXCEPT !.r = "Cannot send payloads before a connection is established"]
  ELSE IF node.ws = 0 THEN [w EXCEPT !.r = "never settles"]
  ELSE IF node.sockets[node.ws].phase # "open" THEN [w EXCEPT !.r = "WebSocket is not open"]
  ELSE [w EXCEPT !.sent = Append(@, frame), !.r = IF ok THEN "" ELSE "write error"]

\* _play that forgets the stored volume when the options carry none
PlayFrameNoStoredVolume(w, p, track, opts, ok) ==
  LET pl == w.players[p] IN
  IF pl.state \notin Active
    THEN [w EXCEPT !.r = "Cannot play when the player isn't in a connected, paused, or playing state"]
  ELSE IF opts.volume # NoVolume /\ (opts.volume < 0 \/ opts.volume > MaxVolume)
    THEN [w EXCEPT !.r = "Volume must be between 0 and 1000"]
  ELSE
    LET volume == IF opts.volume # NoVolume THEN opts.volume ELSE pl.volume
        fvolume == IF opts.volume # NoVolume /\ opts.volume # DefaultVolume THEN opts.volume ELSE NoVolume
        pause == opts.pause \/ (pl.isStage = "true" /\ pl.isSpeaker # "true")
        w1 == [w EXCEPT !.players[p].volume = volume,
                        !.players[p].sentPausedPlay = IF pause THEN "true" ELSE @]
    IN NodeSend(w1, pl.node, Frame("play", pl.guildId, track.id, fvolume, pause), ok)

\* Player._play up to its await of node.send
PlayFrame(w, p, track, opts, ok) ==
  LET pl == w.players[p] IN
  IF pl.state \notin Active
    THEN [w EXCEPT !.r = "Cannot play when the player isn't in a connected, paused, or playing state"]
  ELSE IF opts.volume # NoVolume /\ (opts.volume < 0 \/ opts.volume > MaxVolume)
    THEN [w EXCEPT !.r = "Volume must be between 0 and 1000"]
  ELSE
    LET volume == IF opts.volume # NoVolume THEN opts.volume ELSE pl.volume
        fvolume == IF opts.volume # NoVolume
                     THEN (IF opts.volume = DefaultVolume THEN NoVolume ELSE opts.volume)
                     ELSE (IF pl.volume # DefaultVolume THEN pl.volume ELSE NoVolume)
        pause == opts.pause \/ (pl.isStage = "true" /\ pl.isSpeaker # "true")
        w1 == [w EXCEPT !.players[p].volume = volume,
                        !.players[p].sentPausedPlay = IF pause THEN "true" ELSE @]
    IN NodeSend(w1, pl.node, Frame("play", pl.guildId, track.id, fvolume, pause), ok)

\* Player._stop up to its await of node.send
StopFrame(w, p, ok) ==
  NodeSend(w, w.players[p].node, Frame("stop", w.players[p].guildId, 0, NoVolume, FALSE), ok)

\* what Player._stop does once its send has completed
Stopped(w, p) == [w EXCEPT !.players[p].position = NullPos, !.players[p].state = "CONNECTED"]

\* `this.queue = <a new array>`: an assignment still pending on the old array
\* (`this.queue[i] = await ...`, whose target was evaluated before the await)
\* will no longer reach this.queue
ReplaceQueue(w, p, q) ==
  [w EXCEPT !.players[p].queue = q,
            !.tasks = {IF t.p = p THEN [t EXCEPT !.stale = TRUE] ELSE t : t \in @}]

\* a queue advance that never wraps to the first entry
RECURSIVE AdvanceQueueNoWrap(_, _, _, _)
AdvanceQueueNoWrap(w, p, ok, fuel) ==
  LET pl == w.players[p] IN
  IF fuel = 0 THEN Throw(w, "RangeError: Maximum call stack size exceeded")
  ELSE IF pl.state \notin Active
    THEN Emit(w, p, "ERROR", "Cannot advance the queue when the player isn't in a connected, paused, or playing state")
  ELSE
    LET inc == IF pl.loop # "single" THEN pl.queuePosition + 1 ELSE pl.queuePosition
        pos == IF pl.queuePosition = NullPos THEN 0
               ELSE IF At(pl.queue, inc) = Undefined /\ FALSE THEN 0 ELSE inc
        cur == At(pl.queue, pos)
        w1 == [w EXCEPT !.players[p].queuePosition = pos]
    IN IF cur = Undefined THEN [w1 EXCEPT !.players[p].queuePosition = NullPos]
       ELSE IF cur.kind = "TrackPartial"
         THEN Spawn(w1, Task(p, "advance_resolve", pos, TRUE, NoOptions))
       ELSE IF ~IsTrack(cur)
         THEN LET w2 == Emit(w1, p, "ERROR", "Unable to get Track from new queue position while advancing the queue")
                  w3 == IF pl.loop = "single" THEN [w2 EXCEPT !.players[p].queuePosition = pos + 1] ELSE w2
              IN AdvanceQueueNoWrap(w3, p, ok, fuel - 1)
       ELSE LET w2 == PlayFrame(w1, p, cur, NoOptions, ok)
            IN Spawn(w2, [Task(p, "advance_sent", pos, w2.r = "", NoOptions) EXCEPT !.arg = w2.r])

\* a queue advance that wraps to the first entry under every loop type
RECURSIVE AdvanceQueueAlwaysWraps(_, _, _, _)
AdvanceQueueAlwaysWraps(w, p, ok, fuel) ==
  LET pl == w.players[p] IN
  IF fuel = 0 THEN Throw(w, "RangeError: Maximum call stack size exceeded")
  ELSE IF pl.state \notin Active
    THEN Emit(w, p, "ERROR", "Cannot advance the queue when the player isn't in a connected, paused, or playing state")
  ELSE
    LET inc == IF pl.loop # "single" THEN pl.queuePosition + 1 ELSE pl.queuePosition
        pos == IF pl.queuePosition = NullPos THEN 0
               ELSE IF At(pl.queue, inc) = Undefined /\ Len(pl.queue) > 0 THEN 0 ELSE inc
        cur == At(pl.queue, pos)
        w1 == [w EXCEPT !.players[p].queuePosition = pos]
    IN IF cur = Undefined THEN [w1 EXCEPT !.players[p].queuePosition = NullPos]
       ELSE IF cur.kind = "TrackPartial"
         THEN Spawn(w1, Task(p, "advance_resolve", pos, TRUE, NoOptions))
       ELSE IF ~IsTrack(cur)
         THEN LET w2 == Emit(w1, p, "ERROR", "Unable to get Track from new queue position while advancing the queue")
                  w3 == IF pl.loop = "single" THEN [w2 EXCEPT !.players[p].queuePosition = pos + 1] ELSE w2
              IN AdvanceQueueAlwaysWraps(w3, p, ok, fuel - 1)
       ELSE LET w2 == PlayFrame(w1, p, cur, NoOptions, ok)
            IN Spawn(w2, [Task(p, "advance_sent", pos, w2.r = "", NoOptions) EXCEPT !.arg = w2.r])

\* a queue advance that takes loop 'single' for loop 'off'
RECURSIVE AdvanceQueueNoSingle(_, _, _, _)
AdvanceQueueNoSingle(w, p, ok, fuel) ==
  LET pl == w.players[p] IN
  IF fuel = 0 THEN Throw(w, "RangeError: Maximum call stack size exceeded")
  ELSE IF pl.state \notin Active
    THEN Emit(w, p, "ERROR", "Cannot advance the queue when the player isn't in a connected, paused, or playing state")
  ELSE
    LET inc == pl.queuePosition + 1
        pos == IF pl.queuePosition = NullPos THEN 0
               ELSE IF At(pl.queue, inc) = Undefined /\ pl.loop = "queue" THEN 0 ELSE inc
        cur == At(pl.queue, pos)
        w1 == [w EXCEPT !.players[p].queuePosition = pos]
    IN IF cur = Undefined THEN [w1 EXCEPT !.players[p].queuePosition = NullPos]
       ELSE IF cur.kind = "TrackPartial"
         THEN Spawn(w1, Task(p, "advance_resolve", pos, TRUE, NoOptions))
       ELSE IF ~IsTrack(cur)
         THEN AdvanceQueueNoSingle(Emit(w1, p, "ERROR", "Unable to get Track from new queue position while advancing the queue"),
                                   p, ok, fuel - 1)
       ELSE LET w2 == PlayFrame(w1, p, cur, NoOptions, ok)
            IN Spawn(w2, [Task(p, "advance_sent", pos, w2.r = "", NoOptions) EXCEPT !.arg = w2.r])

\* Player._advanceQueue up to its first await.  fuel is the number of nested
\* calls the stack still holds: the recursion on an invalid entry is a plain
\* call, and with loop 'queue' over entries that are all invalid it never
\* returns, until the call stack overflows with a RangeError.
RECURSIVE AdvanceQueue(_, _, _, _)
AdvanceQueue(w, p, ok, fuel) ==
  LET pl == w.players[p] IN
  IF fuel = 0 THEN Throw(w, "RangeError: Maximum call stack size exceeded")
  ELSE IF pl.state \notin Active
    THEN Emit(w, p, "ERROR", "Cannot advance the queue when the player isn't in a connected, paused, or playing state")
  ELSE
    LET inc == IF pl.loop # "single" THEN pl.queuePosition + 1 ELSE pl.queuePosition
        pos == IF pl.queuePosition = NullPos THEN 0
               ELSE IF At(pl.queue, inc) = Undefined /\ pl.loop = "queue" THEN 0 ELSE inc
        cur == At(pl.queue, pos)
        w1 == [w EXCEPT !.players[p].queuePosition = pos]
    IN IF cur = Undefined THEN [w1 EXCEPT !.players[p].queuePosition = NullPos]
       ELSE IF cur.kind = "TrackPartial"
         THEN Spawn(w1, Task(p, "advance_resolve", pos, TRUE, NoOptions))
       ELSE IF ~IsTrack(cur)
         THEN LET w2 == Emit(w1, p, "ERROR", "Unable to get Track from new queue position while advancing the queue")
                  w3 == IF pl.loop = "single" THEN [w2 EXCEPT !.players[p].queuePosition = pos + 1] ELSE w2
              IN AdvanceQueue(w3, p, ok, fuel - 1)
       ELSE LET w2 == PlayFrame(w1, p, cur, NoOptions, ok)
            IN Spawn(w2, [Task(p, "advance_sent", pos, w2.r = "", NoOptions) EXCEPT !.arg = w2.r])

\* Player._disconnect up to its await of the gateway send
Disconnect(w, p, ok) == Spawn(w, Task(p, "disconnect", NullPos, ok, NoOptions))

\* Player.destroy(reason).  removeListener('RAW', this._handlePayload) removes
\* nothing: the listener registered in the constructor is another function
\* object, this._handlePayload.bind(this).  The DESTROYED event runs the
\* onDestroy listener of a pending connect().
Destroy(w, p, reason, ok) ==
  LET pl == w.players[p]
      w1 == IF pl.currentVoiceChannel # Null THEN Disconnect(w, p, ok) ELSE w
      w2 == NodeSend(w1, pl.node, Frame("destroy", pl.guildId, 0, NoVolume, FALSE), ok)
      w3 == [ReplaceQueue(w2, p, <<>>) EXCEPT !.players[p].queuePosition = NullPos,
                                             !.players[p].position = NullPos,
                                             !.players[p].state = "DESTROYED",
                                             !.r = ""]
      w4 == Emit(w3, p, "DESTROYED", reason)
      \* onDestroy: a second _disconnect() (the same suspended call), ERROR, reject
      w5 == IF pl.connectListeners
              THEN [Emit(w4, p, "ERROR", "Failed to connect to the voice channel, Player was destroyed")
                     EXCEPT !.players[p].connectPromise = IF @ = "pending" THEN "rejected" ELSE @]
              ELSE w4
  IN [w5 EXCEPT !.players[p].listeners = FALSE,
                !.players[p].connectListeners = FALSE,
                !.managerPlayers[pl.guildId] = 0]

\* ------------------------------------------------------- playback commands
\* nested _advanceQueue calls the stack holds before it overflows: more than
\* any terminating recursion needs (one call per queue entry, and one more)
StackDepth == MaxQueue + 2

NotActiveError(what) == "Cannot " \o what \o " when the player isn't in a connected, paused, or playing state"

\* validate queue[pos] and send its play frame: the common tail of play,
\* skip(index) and shuffle once queue[pos] is no TrackPartial
ValidateAndPlay(w, p, pos, opts, ok, invalid) ==
  LET e == At(w.players[p].queue, pos) IN
  IF ~IsTrack(e) THEN Throw(w, invalid)
  ELSE LET w1 == PlayFrame(w, p, e, opts, ok)
       IN Spawn(w1, [Task(p, "sent", pos, w1.r = "", opts) EXCEPT !.arg = w1.r])

\* resolve queue[pos] first when it is a TrackPartial
ResolveAndPlay(w, p, pos, opts, ok, invalid) ==
  IF At(w.players[p].queue, pos).kind = "TrackPartial"
    THEN Spawn(w, [Task(p, "resolve", pos, TRUE, opts) EXCEPT !.arg = invalid])
    ELSE ValidateAndPlay(w, p, pos, opts, ok, invalid)

\* play that starts the first new entry in whatever state the Player is
PlayStartsAlways(p, list, opts, ok) ==
  /\ p \in DOMAIN players
  /\ Len(players[p].queue) + Len(list) <= MaxQueue
  /\ LET pl == players[p]
         w1 == [World EXCEPT !.players[p].queue = @ \o list]
         newPosition == Len(pl.queue)
     IN IF pl.state \notin Active THEN Commit(Throw(World, NotActiveError("play")), "play", p)
        ELSE Commit(ResolveAndPlay(w1, p, newPosition, opts, ok, "Invalid track"), "play", p)

\* Player.play(track | tracks, options) up to its first await
Play(p, list, opts, ok) ==
  /\ p \in DOMAIN players
  /\ Len(players[p].queue) + Len(list) <= MaxQueue
  /\ LET pl == players[p]
         w1 == [World EXCEPT !.players[p].queue = @ \o list]
         newPosition == Len(pl.queue)
     IN IF pl.state \notin Active THEN Commit(Throw(World, NotActiveError("play")), "play", p)
        ELSE IF pl.state = "CONNECTED"
          THEN Commit(ResolveAndPlay(w1, p, newPosition, opts, ok, "Invalid track"), "play", p)
          ELSE Commit(w1, "play", p)

\* `this.queue[pos] = await this.manager.resolveTrack(...)` completes, in play,
\* skip(index) or shuffle: res is the Track found, or "fail" when
\* resolveTrack rejects.  The write goes to the array that was this.queue
\* when the await began.
Resolved(t, res, ok) ==
  /\ t \in tasks /\ t.pc = "resolve"
  /\ LET w == Finish(World, t)
         w1 == IF t.stale THEN w
               ELSE [w EXCEPT !.players[t.p].queue = SetAt(@, t.pos, res)]
     IN IF res = Undefined THEN Commit(Throw(w, "No results found"), "resolved", t.p)
        ELSE Commit(ValidateAndPlay(w1, t.p, t.pos, t.opts, ok, t.arg), "resolved", t.p)

\* Sent with the index left one short of the entry whose frame was sent
SentOneShort(t) ==
  /\ t \in tasks /\ t.pc = "sent"
  /\ LET w == Finish(World, t)
     IN IF t.ok THEN Commit([w EXCEPT !.players[t.p].queuePosition = t.pos - 1], "sent", t.p)
        ELSE Commit(Throw(w, t.arg), "sent", t.p)

\* `await this._play(...)` completes in play, skip(index) or shuffle
Sent(t) ==
  /\ t \in tasks /\ t.pc = "sent"
  /\ LET w == Finish(World, t)
     IN IF t.ok THEN Commit([w EXCEPT !.players[t.p].queuePosition = t.pos], "sent", t.p)
        ELSE Commit(Throw(w, t.arg), "sent", t.p)

\* Player.skip(index?) up to its await of _stop; hasIndex is typeof index === 'number'
Skip(p, hasIndex, index, ok) ==
  /\ p \in DOMAIN players
  /\ LET pl == players[p]
         w1 == StopFrame(World, p, ok)
     IN IF pl.state \notin Active THEN Commit(Throw(World, NotActiveError("skip")), "skip", p)
        ELSE Commit(Spawn(w1, [Task(p, "skip_stopped", index, w1.r = "", NoOptions)
                                EXCEPT !.arg = IF hasIndex THEN "index" ELSE "next", !.reason = w1.r]),
                    "skip", p)

\* skip() after `await this._stop()`
SkipStopped(t, ok) ==
  /\ t \in tasks /\ t.pc = "skip_stopped"
  /\ LET w == Finish(World, t)
         w1 == Stopped(w, t.p)
     IN IF ~t.ok THEN Commit(Throw(w, t.reason), "skip_stopped", t.p)
        ELSE IF t.arg = "index"
          THEN IF t.pos < 0 \/ t.pos >= Len(w1.players[t.p].queue)
                 THEN Commit(Throw(w1, "Invalid index"), "skip_stopped", t.p)
                 ELSE Commit(ResolveAndPlay(w1, t.p, t.pos, NoOptions, ok, "Invalid track"), "skip_stopped", t.p)
          ELSE Commit(AdvanceQueue(w1, t.p, ok, StackDepth), "skip_stopped", t.p)

\* the arrays the loop of shuffle() can leave (Fisher-Yates from the end):
\* randomIndex in 0..currentIndex-1, currentIndex--, swap the two entries
Swap(q, i, j) == [q EXCEPT ![i + 1] = q[j + 1], ![j + 1] = q[i + 1]]
RECURSIVE FisherYates(_, _)
FisherYates(q, currentIndex) ==
  IF currentIndex = 0 THEN {q}
  ELSE UNION {FisherYates(Swap(q, currentIndex - 1, randomIndex), currentIndex - 1) :
                randomIndex \in 0..(currentIndex - 1)}

\* Player.shuffle() up to its await of _stop
Shuffle(p, ok) ==
  /\ p \in DOMAIN players
  /\ LET pl == players[p]
         w1 == StopFrame(World, p, ok)
     IN IF pl.state \notin Active THEN Commit(Throw(World, NotActiveError("shuffle")), "shuffle", p)
        ELSE Commit(Spawn(w1, [Task(p, "shuffle_stopped", NullPos, w1.r = "", NoOptions) EXCEPT !.reason = w1.r]),
                    "shuffle", p)

\* shuffle() after `await this._stop()`
ShuffleStopped(t, ok) ==
  /\ t \in tasks /\ t.pc = "shuffle_stopped"
  /\ LET w == Finish(World, t)
         w1 == Stopped(w, t.p)
     IN IF ~t.ok THEN Commit(Throw(w, t.reason), "shuffle_stopped", t.p)
        ELSE \E q \in FisherYates(w1.players[t.p].queue, Len(w1.players[t.p].queue)) :
               Commit(ResolveAndPlay([w1 EXCEPT !.players[t.p].queue = q], t.p, 0, NoOptions, ok,
                                     "Invalid track at new queue position 0"),
                      "shuffle_stopped", t.p)

\* Player.pause(reason) / Player.resume(reason) up to the await of node.send
PauseOrResume(w, p, pause, reason, ok) ==
  LET pl == w.players[p]
      w1 == NodeSend(w, pl.node, Frame("pause", pl.guildId, 0, NoVolume, pause), ok)
      what == IF pause THEN "pause" ELSE "resume"
  IN IF pl.state \notin Active THEN Throw(w, NotActiveError(what))
     ELSE Spawn(w1, [Task(p, what \o "_sent", NullPos, w1.r = "", NoOptions)
                      EXCEPT !.arg = w1.r, !.reason = reason])

Pause(p, ok) ==
  /\ p \in DOMAIN players
  /\ Commit(PauseOrResume(World, p, TRUE, "Manual Pause", ok), "pause", p)

Resume(p, ok) ==
  /\ p \in DOMAIN players
  /\ Commit(PauseOrResume(World, p, FALSE, "Manual Resume", ok), "resume", p)

\* pause() whose continuation raises the event but leaves the state
PauseSentKeepsState(t) ==
  /\ t \in tasks /\ t.pc = "pause_sent"
  /\ LET w == Finish(World, t)
     IN IF ~t.ok THEN Commit(Throw(w, t.arg), "pause_sent", t.p)
        ELSE Commit(Emit(w, t.p, "PAUSED", t.reason), "pause_sent", t.p)

\* pause() after its send
PauseSent(t) ==
  /\ t \in tasks /\ t.pc = "pause_sent"
  /\ LET w == Finish(World, t)
     IN IF ~t.ok THEN Commit(Throw(w, t.arg), "pause_sent", t.p)
        ELSE Commit(Emit([w EXCEPT !.players[t.p].state = "PAUSED"], t.p, "PAUSED", t.reason), "pause_sent", t.p)

\* resume() after its send
ResumeSent(t) ==
  /\ t \in tasks /\ t.pc = "resume_sent"
  /\ LET w == Finish(World, t)
     IN IF ~t.ok THEN Commit(Throw(w, t.arg), "resume_sent", t.p)
        ELSE Commit(Emit([w EXCEPT !.players[t.p].state = "PLAYING"], t.p, "RESUMED", t.reason), "resume_sent", t.p)

\* Player.stop() up to its await of _stop; clear(true) awaits this call
StopCall(p, ok, pc) ==
  LET pl == players[p]
      w1 == StopFrame(World, p, ok)
  IN IF pl.state \notin Active THEN Throw(World, NotActiveError("stop"))
     ELSE Spawn(w1, [Task(p, pc, NullPos, w1.r = "", NoOptions) EXCEPT !.arg = w1.r])

Stop(p, ok) ==
  /\ p \in DOMAIN players
  /\ Commit(StopCall(p, ok, "stop_stopped"), "stop", p)

\* stop() after `await this._stop()`
StopStopped(t) ==
  /\ t \in tasks /\ t.pc = "stop_stopped"
  /\ LET w == Finish(World, t)
     IN IF ~t.ok THEN Commit(Throw(w, t.arg), "stop_stopped", t.p)
        ELSE Commit([Stopped(w, t.p) EXCEPT !.players[t.p].queuePosition = NullPos], "stop_stopped", t.p)

\* `this.queue = this.currentTrack ? [this.currentTrack] : []`
ClearQueue(w, p) ==
  LET cur == currentTrack(w.players[p])
  IN ReplaceQueue(w, p, IF cur # Undefined THEN <<cur>> ELSE <<>>)

\* Player.clear(stop): with stop, up to the await of stop()
Clear(p, stop, ok) ==
  /\ p \in DOMAIN players
  /\ IF stop THEN Commit(StopCall(p, ok, "clear_stopped"), "clear", p)
     ELSE Commit(ClearQueue(World, p), "clear", p)

\* clear(true) after `await this.stop()`
ClearStopped(t) ==
  /\ t \in tasks /\ t.pc = "clear_stopped"
  /\ LET w == Finish(World, t)
     IN IF ~t.ok THEN Commit(Throw(w, t.arg), "clear_stopped", t.p)
        ELSE Commit(ClearQueue([Stopped(w, t.p) EXCEPT !.players[t.p].queuePosition = NullPos], t.p),
                    "clear_stopped", t.p)

\* Player.setLoop(type)
SetLoop(p, type) ==
  /\ p \in DOMAIN players
  /\ players[p].loop # type
  /\ Commit([World EXCEPT !.players[p].loop = type], "setLoop", p)

\* Player.setVolume(volume) up to its await of node.send: the volume is
\* stored before the frame is sent
SetVolume(p, volume, ok) ==
  /\ p \in DOMAIN players
  /\ LET pl == players[p]
         w1 == [World EXCEPT !.players[p].volume = volume]
         w2 == NodeSend(w1, pl.node, Frame("volume", pl.guildId, 0, volume, FALSE), ok)
     IN IF pl.state \notin Active THEN Commit(Throw(World, NotActiveError("set volume")), "setVolume", p)
        ELSE IF volume < 0 \/ volume > MaxVolume
          THEN Commit(Throw(World, "Volume must be between 0 and 1000"), "setVolume", p)
        ELSE Commit(Spawn(w2, [Task(p, "volume_sent", NullPos, w2.r = "", NoOptions) EXCEPT !.arg = w2.r]),
                    "setVolume", p)

\* setVolume() after its send
SetVolumeSent(t) ==
  /\ t \in tasks /\ t.pc = "volume_sent"
  /\ LET w == Finish(World, t)
     IN IF t.ok THEN Commit(w, "volume_sent", t.p) ELSE Commit(Throw(w, t.arg), "volume_sent", t.p)

\* Player.seek(position) up to its await of node.send; isNumber is
\* typeof position === 'number'
Seek(p, isNumber, position, ok) ==
  /\ p \in DOMAIN players
  /\ LET pl == players[p]
         w1 == NodeSend(World, pl.node, [op |-> "seek", guildId |-> pl.guildId, position |-> position], ok)
     IN IF pl.state \notin Active THEN Commit(Throw(World, NotActiveError("seek")), "seek", p)
        ELSE IF ~isNumber THEN Commit(Throw(World, "Expected position to be defined"), "seek", p)
        ELSE IF position < 0 THEN Commit(Throw(World, "Position must be greater than 0"), "seek", p)
        ELSE Commit(Spawn(w1, [Task(p, "seek_sent", NullPos, w1.r = "", NoOptions) EXCEPT !.arg = w1.r]),
                    "seek", p)

\* seek() after its send
SeekSent(t) ==
  /\ t \in tasks /\ t.pc = "seek_sent"
  /\ LET w == Finish(World, t)
     IN IF t.ok THEN Commit(w, "seek_sent", t.p) ELSE Commit(Throw(w, t.arg), "seek_sent", t.p)

\* Player.setFilters(filters) up to its await of node.send; Null is a missing
\* argument
SetFilters(p, filters, ok) ==
  /\ p \in DOMAIN players
  /\ LET pl == players[p]
         w1 == NodeSend(World, pl.node, [op |-> "filters", guildId |-> pl.guildId, filters |-> filters], ok)
     IN IF pl.state \notin Active THEN Commit(Throw(World, NotActiveError("set filters")), "setFilters", p)
        ELSE IF filters = Null THEN Commit(Throw(World, "Expected filters to be defined"), "setFilters", p)
        ELSE Commit(Spawn(w1, [Task(p, "filters_sent", NullPos, w1.r = "", NoOptions)
                                EXCEPT !.arg = w1.r, !.reason = filters]),
                    "setFilters", p)

\* setFilters() after its send: the filters are stored once the frame is written
SetFiltersSent(t) ==
  /\ t \in tasks /\ t.pc = "filters_sent"
  /\ LET w == Finish(World, t)
     IN IF t.ok THEN Commit([w EXCEPT !.players[t.p].filters = t.reason], "filters_sent", t.p)
        ELSE Commit(Throw(w, t.arg), "filters_sent", t.p)

\* `await this.manager.resolveTrack(this.currentTrack)` completes in
\* _advanceQueue; a rejection leaves _advanceQueue rejected
AdvanceResolved(t, res, ok) ==
  /\ t \in tasks /\ t.pc = "advance_resolve"
  /\ LET w == Finish(World, t)
         w1 == IF t.stale THEN w
               ELSE [w EXCEPT !.players[t.p].queue = SetAt(@, t.pos, res)]
         pl == w1.players[t.p]
         cur == currentTrack(pl)
     IN IF res = Undefined THEN Commit(Throw(w, "No results found"), "advance_resolved", t.p)
        ELSE IF ~IsTrack(cur)
          THEN LET w2 == Emit(w1, t.p, "ERROR", "Unable to get Track from new queue position while advancing the queue")
                   w3 == IF pl.loop = "single"
                           THEN [w2 EXCEPT !.players[t.p].queuePosition = PlusPlus(@)] ELSE w2
               IN Commit(AdvanceQueue(w3, t.p, ok, StackDepth), "advance_resolved", t.p)
          ELSE LET w2 == PlayFrame(w1, t.p, cur, NoOptions, ok)
               IN Commit(Spawn(w2, [Task(t.p, "advance_sent", pl.queuePosition, w2.r = "", NoOptions)
                                     EXCEPT !.arg = w2.r]),
                         "advance_resolved", t.p)

\* `this._play(this.currentTrack)` settles in _advanceQueue: the catch handler
AdvanceSent(t, ok) ==
  /\ t \in tasks /\ t.pc = "advance_sent"
  /\ LET w == Finish(World, t)
         w1 == Emit(w, t.p, "ERROR", t.arg)
         w2 == IF w.players[t.p].loop = "single"
                 THEN [w1 EXCEPT !.players[t.p].queuePosition = PlusPlus(@)] ELSE w1
     IN IF t.ok THEN Commit(w, "advance_sent", t.p)
        ELSE Commit(AdvanceQueue(w2, t.p, ok, StackDepth), "advance_sent", t.p)

\* ------------------------------------------------- inbound frames of a node
\* an inbound frame: op 'playerUpdate' (state.position) or 'event' (type,
\* reason, and whether it carries an encoded track to decode)
Payload(op, guildId, type, reason, position, track) ==
  [op |-> op, guildId |-> guildId, type |-> type, reason |-> reason,
   position |-> position, track |-> track]

\* the switch of Player._handlePayload on an event frame, up to its first await
HandleEvent(w, p, type, reason, ok) ==
  LET pl == w.players[p] IN
  CASE type = "TrackEndEvent" ->
         LET w1 == Emit([w EXCEPT !.players[p].position = NullPos, !.players[p].state = "CONNECTED"],
                        p, "TRACK_END", reason)
         IN IF reason # "STOPPED" /\ reason # "REPLACED"
              THEN AdvanceQueue(w1, p, ok, StackDepth) ELSE w1
    [] type = "TrackExceptionEvent" -> Emit(w, p, "TRACK_EXCEPTION", "")
    [] type = "TrackStartEvent" ->
         Emit(IF pl.sentPausedPlay = "true"
                THEN [w EXCEPT !.players[p].state = "PAUSED", !.players[p].sentPausedPlay = Null]
                ELSE [w EXCEPT !.players[p].state = "PLAYING"],
              p, "TRACK_START", "")
    [] type = "TrackStuckEvent" ->
         LET w1 == StopFrame(Emit(w, p, "TRACK_STUCK", ""), p, ok)
         IN Spawn(w1, Task(p, "stuck_stopped", NullPos, w1.r = "", NoOptions))
    [] OTHER -> w

ForAnyGuild(payload, pl) == TRUE
\* `if (payload.guildId !== this.guildId) return`
ForGuild(payload, pl) == payload.guildId = pl.guildId

\* Player._handlePayload up to its first await
HandlePayload(w, p, payload, ok) ==
  IF ~ForGuild(payload, w.players[p]) THEN w
  ELSE IF payload.op = "playerUpdate" THEN [w EXCEPT !.players[p].position = payload.position]
  ELSE IF payload.op = "event"
    THEN IF payload.track
           THEN Spawn(w, [Task(p, "decode", NullPos, TRUE, NoOptions)
                           EXCEPT !.arg = payload.type, !.reason = payload.reason])
           ELSE HandleEvent(w, p, payload.type, payload.reason, ok)
  ELSE w

\* node.emit('RAW', ...): every listener, in the order the Players registered
RECURSIVE EmitRaw(_, _, _, _, _)
EmitRaw(w, n, payload, ok, p) ==
  IF p > Len(w.players) THEN w
  ELSE EmitRaw(IF w.players[p].node = n THEN HandlePayload(w, p, payload, ok) ELSE w,
               n, payload, ok, p + 1)

\* Node._onMessage for a playerUpdate or event frame: the node's socket is
\* open and its listeners are registered
OnMessage(n, payload, ok) ==
  /\ \E i \in DOMAIN nodes[n].sockets :
       nodes[n].sockets[i].phase = "open" /\ nodes[n].sockets[i].listening = "on"
  /\ nodes[n].listeners
  /\ \E p \in DOMAIN players : players[p].node = n /\ players[p].guildId = payload.guildId
  /\ Commit(EmitRaw(World, n, payload, ok, 1), "message", n)

\* `await this.manager.decodeTracks([payload.track])` completes in
\* _handlePayload; a rejection (fulfils = FALSE) ends the handler
Decoded(t, fulfils, ok) ==
  /\ t \in tasks /\ t.pc = "decode"
  /\ LET w == Finish(World, t)
     IN IF ~fulfils THEN Commit(Throw(w, "No decode response data"), "decoded", t.p)
        ELSE Commit(HandleEvent(w, t.p, t.arg, t.reason, ok), "decoded", t.p)

\* TrackStuckEvent after `await this._stop().catch(() => {})`
StuckStopped(t, ok) ==
  /\ t \in tasks /\ t.pc = "stuck_stopped"
  /\ LET w == Finish(World, t)
         w1 == IF t.ok THEN Stopped(w, t.p) ELSE w
     IN Commit(AdvanceQueue(w1, t.p, ok, StackDepth), "stuck_stopped", t.p)

\* Player._disconnect after its await of the gateway send
Disconnected(t) ==
  /\ t \in tasks /\ t.pc = "disconnect"
  /\ LET w == Finish(World, t)
     IN IF ~t.ok THEN Commit(Throw(w, "gateway send failed"), "disconnected", t.p)
        ELSE Commit([w EXCEPT !.players[t.p].currentVoiceChannel = Null,
                              !.players[t.p].state = "DISCONNECTED"], "disconnected", t.p)

\* a call of Player.destroy(reason) by the application
DestroyPlayer(p, ok) ==
  /\ p \in DOMAIN players
  /\ Commit(Destroy(World, p, "Manual destroy", ok), "destroy", p)

\* ----------------------------------------------------------------- manager
\* NodeStats, the part leastLoadNodes reads: whether cpu is there, systemLoad
\* (in hundredths) and cores.  A Node starts with cpu { cores: 0, systemLoad: 0 }.
Stats(cpu, systemLoad, cores) == [cpu |-> cpu, systemLoad |-> systemLoad, cores |-> cores]
FreshStats == Stats(TRUE, 0, 0)
\* `stats.cpu ? stats.cpu.systemLoad / stats.cpu.cores : 0` is NaN for 0 / 0
LoadIsNaN(stats) == stats.cpu /\ stats.cores = 0 /\ stats.systemLoad = 0
\* the comparator of the sort returns a negative number: load(a) - load(b) < 0,
\* which no NaN is.  The loads are compared as fractions; a positive
\* systemLoad over 0 cores is Infinity.
LoadBelow(a, b) ==
  LET num(x) == IF x.cpu THEN x.systemLoad ELSE 0
      den(x) == IF x.cpu THEN x.cores ELSE 1
  IN /\ ~LoadIsNaN(a) /\ ~LoadIsNaN(b)
     /\ IF den(a) = 0 THEN FALSE
        ELSE IF den(b) = 0 THEN TRUE
        ELSE num(a) * den(b) < num(b) * den(a)

\* this.nodes.reduce(...).filter(node => node.state === CONNECTED): the
\* CONNECTED nodes of the pool, in the order of the pool, from node n on
RECURSIVE ConnectedFrom(_, _)
ConnectedFrom(w, n) ==
  IF n \notin DOMAIN w.nodes THEN <<>>
  ELSE (IF n \in w.managerNodes /\ w.nodes[n].state = "CONNECTED" THEN <<n>> ELSE <<>>)
         \o ConnectedFrom(w, n + 1)

\* Array.prototype.sort with that comparator, as the engine of Node.js sorts
\* an array shorter than 64: the run the array starts with is found (turned
\* round if it descends) and every later element is put into it by binary
\* search.  A comparator result of NaN counts as 0.
Below(w, n, m) == LoadBelow(w.nodes[n].stats, w.nodes[m].stats)

RECURSIVE RunEnd(_, _, _, _)
RunEnd(w, a, idx, descending) ==
  IF idx > Len(a) THEN Len(a)
  ELSE IF Below(w, a[idx], a[idx - 1]) = descending THEN RunEnd(w, a, idx + 1, descending)
  ELSE idx - 1

RECURSIVE TurnRound(_)
TurnRound(a) == IF a = <<>> THEN <<>> ELSE Append(TurnRound(Tail(a)), Head(a))

CountAndMakeRun(w, a) ==
  IF Len(a) < 2 THEN [run |-> Len(a), a |-> a]
  ELSE LET descending == Below(w, a[2], a[1])
           run == RunEnd(w, a, 3, descending)
       IN [run |-> run,
           a |-> IF descending THEN TurnRound(SubSeq(a, 1, run)) \o SubSeq(a, run + 1, Len(a))
                 ELSE a]

RECURSIVE BinarySearch(_, _, _, _, _)
BinarySearch(w, a, pivot, left, right) ==
  IF left >= right THEN left
  ELSE LET mid == left + ((right - left) \div 2)
       IN IF Below(w, pivot, a[mid]) THEN BinarySearch(w, a, pivot, left, mid)
          ELSE BinarySearch(w, a, pivot, mid + 1, right)

RECURSIVE BinaryInsertionSort(_, _, _)
BinaryInsertionSort(w, a, start) ==
  IF start > Len(a) THEN a
  ELSE LET pivot == a[start]
           left == BinarySearch(w, a, pivot, 1, start)
       IN BinaryInsertionSort(w,
            SubSeq(a, 1, left - 1) \o <<pivot>> \o SubSeq(a, left, start - 1)
              \o SubSeq(a, start + 1, Len(a)),
            start + 1)

SortByLoad(w, a) ==
  LET made == CountAndMakeRun(w, a) IN BinaryInsertionSort(w, made.a, made.run + 1)

\* get leastLoadNodes
LeastLoadNodes(w) == SortByLoad(w, ConnectedFrom(w, 0))
\* `this.leastLoadNodes[0]`, and whether it is there
HasLeast(w) == LeastLoadNodes(w) # <<>>
LeastLoadNode(w) == LeastLoadNodes(w)[1]

PlayerOptions == [becomeSpeaker : BOOLEAN, moveBehavior : {"destroy", "pause"},
                  stageMoveBehavior : {"destroy", "pause"}]
DefaultPlayerOptions == [becomeSpeaker |-> TRUE, moveBehavior |-> "destroy", stageMoveBehavior |-> "pause"]

\* LavalinkManager.createPlayer(options) with the Player constructor
CreatePlayer(guildId, voiceChannelId, opt) ==
  /\ Len(players) < MaxPlayers
  /\ IF managerPlayers[guildId] # 0
       THEN Commit(Throw(World, "A player already exists for that guild"), "createPlayer", 0)
     ELSE IF ~HasLeast(World)
       THEN Commit(Throw(World, "No available nodes to bind the player to"), "createPlayer", 0)
     ELSE LET p == Len(players) + 1
              w1 == [World EXCEPT !.players = Append(@, NewPlayer(guildId, voiceChannelId, LeastLoadNode(World), opt)),
                                  !.managerPlayers[guildId] = p]
          IN Commit(Emit(w1, p, "CREATED", ""), "createPlayer", p)

\* LavalinkManager.search(query, requester, source) up to its await of
\* searchNode.request, without Spotify credentials; the suspended call keeps
\* the node it asked in `pos`
Search(enabled) ==
  IF ~HasLeast(World)
    THEN Commit(Throw(World, "No available nodes to perform a search"), "search", 0)
  ELSE IF ~enabled THEN Commit(Throw(World, "The provided source is not enabled"), "search", 0)
  ELSE Commit(Spawn(World, Task(0, "search", LeastLoadNode(World), TRUE, NoOptions)), "search", 0)

\* search() after the request: the response has a json body or not
SearchResponded(t, json) ==
  /\ t \in tasks /\ t.pc = "search"
  /\ LET w == Finish(World, t)
     IN IF json THEN Commit(w, "search_responded", 0)
        ELSE Commit(Throw(w, "No search response data"), "search_responded", 0)

\* LavalinkManager.decodeTracks(tracks) up to its await of decodeNode.request
DecodeTracks ==
  IF ~HasLeast(World)
    THEN Commit(Throw(World, "No available nodes to decode the track"), "decodeTracks", 0)
  ELSE Commit(Spawn(World, Task(0, "decodeTracks", LeastLoadNode(World), TRUE, NoOptions)), "decodeTracks", 0)

\* decodeTracks() after the request
DecodeResponded(t, json) ==
  /\ t \in tasks /\ t.pc = "decodeTracks"
  /\ LET w == Finish(World, t)
     IN IF json THEN Commit(w, "decode_responded", 0)
        ELSE Commit(Throw(w, "No decode response data"), "decode_responded", 0)

\* --------------------------------------------------------- track resolution
\* Strings that resolveTrack compares are sequences of characters.
Abba == <<"A", "b", "b", "a">>
ADotBa == <<"a", ".", "b", "a">>
abba == <<"a", "b", "b", "a">>
Queen == <<"Q", "u", "e", "e", "n">>
\* ' - Topic'
TopicSuffix == <<" ", "-", " ", "T", "o", "p", "i", "c">>
ABBATOPIC == <<"A", "B", "B", "A", " ", "-", " ", "T", "O", "P", "I", "C">>
NoString == <<>>   \* undefined or '': both falsy, both '' after `?? ''`

\* String.prototype.toUpperCase on one character: the canonical form the
\* i flag of a RegExp compares
ToUpperCase(c) ==
  CASE c = "a" -> "A" [] c = "b" -> "B" [] c = "c" -> "C" [] c = "e" -> "E"
    [] c = "i" -> "I" [] c = "n" -> "N" [] c = "o" -> "O" [] c = "p" -> "P"
    [] c = "q" -> "Q" [] c = "t" -> "T" [] c = "u" -> "U" [] OTHER -> c

\* the characters that name.replace(/[.*+?^${}()|[\]\\]/g, '\\$&') escapes
RegExpSpecial == {".", "*", "+", "?", "^", "$", "{", "}", "(", ")", "|", "[", "]", "\\"}
\* a pattern is a sequence of atoms: a literal character, or `.` (any character)
Literal(c) == [any |-> FALSE, char |-> c]
AnyChar == [any |-> TRUE, char |-> "."]
\* name.replace(/[.*+?^${}()|[\]\\]/g, '\\$&'): a backslash before every
\* special character
RECURSIVE Escape(_)
Escape(name) ==
  IF name = <<>> THEN <<>>
  ELSE (IF Head(name) \in RegExpSpecial THEN <<"\\", Head(name)>> ELSE <<Head(name)>>)
         \o Escape(Tail(name))
\* the atoms of a RegExp source made of characters, escaped characters and `.`
RECURSIVE Compile(_)
Compile(source) ==
  IF source = <<>> THEN <<>>
  ELSE IF Head(source) = "\\" /\ Len(source) >= 2
    THEN <<Literal(source[2])>> \o Compile(Tail(Tail(source)))
  ELSE IF Head(source) = "." THEN <<AnyChar>> \o Compile(Tail(source))
  ELSE <<Literal(Head(source))>> \o Compile(Tail(source))
\* the source `^${escaped name}$` compiled
EscapedPattern(name) == Compile(Escape(name))
\* the same source without the replace: `.` stays the wildcard
UnescapedPattern(name) == Compile(name)
\* new RegExp(`^...$`, 'i').test(str)
RegExpTest(pattern, str) ==
  /\ Len(pattern) = Len(str)
  /\ \A i \in 1..Len(str) :
       pattern[i].any \/ ToUpperCase(pattern[i].char) = ToUpperCase(str[i])

\* a Track of a search result, with the fields resolveTrack reads
Candidate(author, length) == [kind |-> "Track", author |-> author, length |-> length]
\* a TrackPartial in a search result (the Spotify branch of search)
PartialCandidate == [kind |-> "TrackPartial", author |-> NoString, length |-> 0]
\* the TrackPartial to resolve: author and length are optional
Hint(author, length) == [author |-> author, length |-> length]
NoCandidate == [kind |-> "none", author |-> NoString, length |-> 0]

\* t.length >= track.length - 2000 && t.length <= track.length + 200, with the
\* truthiness tests on both lengths (undefined and 0 are falsy)
SameDuration(track, t) ==
  /\ track.length # Unset /\ track.length # 0
  /\ t.length # 0
  /\ t.length >= track.length - 2000
  /\ t.length <= track.length + 200

\* the author filter with the names not escaped
SameAuthorUnescaped(track, t) ==
  \E name \in {track.author, track.author \o TopicSuffix} : RegExpTest(UnescapedPattern(name), t.author)

\* [track.author, `${track.author} - Topic`].some(name => regexp(name).test(t.author ?? ''))
SameAuthor(track, t) ==
  \E name \in {track.author, track.author \o TopicSuffix} : RegExpTest(EscapedPattern(name), t.author)

\* LavalinkManager.resolveTrack after its await of search
ResolveTrack(track, search) ==
  LET IsTrackClass(t) == t.kind = "Track"
      ByAuthor(t) == SameAuthor(track, t)
      ByDuration(t) == SameDuration(track, t)
      tracks == SelectSeq(search.tracks, IsTrackClass)
      sameAuthor == SelectSeq(tracks, ByAuthor)
      sameDuration == SelectSeq(tracks, ByDuration)
  IN IF search.loadType # "SEARCH_RESULT" \/ Len(tracks) = 0
       THEN [threw |-> "No results found", value |-> NoCandidate]
     ELSE IF track.author # NoString /\ Len(sameAuthor) > 0 THEN [threw |-> "", value |-> sameAuthor[1]]
     ELSE IF Len(sameDuration) > 0 THEN [threw |-> "", value |-> sameDuration[1]]
     ELSE [threw |-> "", value |-> tracks[1]]

\* no resolveTrack call has been made
NoCall == [pc |-> "idle"]

\* resolveTrack(track) up to its await of this.search(...)
ResolveTrackCall(track) ==
  /\ resolve.pc = "idle"
  /\ resolve' = [pc |-> "search", track |-> track]
  /\ UNCHANGED <<players, managerPlayers, nodes, managerNodes, tasks, sent, emitted, thrown, last, connectAll>>

\* the search fulfils with a SearchResult and resolveTrack runs to its end
SearchFulfilled(search) ==
  /\ resolve.pc = "search"
  /\ LET out == ResolveTrack(resolve.track, search)
     IN resolve' = [pc |-> IF out.threw = "" THEN "returned" ELSE "threw",
                    track |-> resolve.track, search |-> search,
                    threw |-> out.threw, value |-> out.value]
  /\ UNCHANGED <<players, managerPlayers, nodes, managerNodes, tasks, sent, emitted, thrown, last, connectAll>>

\* the search rejects (no node, source not enabled, no response data) and
\* resolveTrack rejects with the same error
SearchRejected(error) ==
  /\ resolve.pc = "search"
  /\ resolve' = [pc |-> "threw", track |-> resolve.track,
                 search |-> [loadType |-> "none", tracks |-> <<>>],
                 threw |-> error, value |-> NoCandidate]
  /\ UNCHANGED <<players, managerPlayers, nodes, managerNodes, tasks, sent, emitted, thrown, last, connectAll>>

\* ------------------------------------------------------ voice connection
\* the channels of the guild that are stage channels (ChannelType.GuildStageVoice)
StageChannels == {"vc2"}
\* what _getStagePermissions can answer
StagePermissions == {"becomeSpeaker", "request", "none"}

\* Player.connect(): the join request goes to the gateway, the state becomes
\* CONNECTING and the promise waits for CONNECTED, DESTROYED or the timeout
Connect(p) ==
  /\ p \in DOMAIN players
  /\ IF players[p].state # "DISCONNECTED"
       THEN Commit(Throw(World, "Cannot initiate a connection when the player isn't in a disconnected state"), "connect", p)
       ELSE Commit([World EXCEPT !.players[p].state = "CONNECTING",
                                 !.players[p].connectPromise = "pending",
                                 !.players[p].connectListeners = TRUE,
                                 !.players[p].connectTimer = TRUE], "connect", p)

\* the timeout of connect() fires: ERROR and a rejection, nothing else
ConnectTimeout(p) ==
  /\ p \in DOMAIN players /\ players[p].connectTimer
  /\ LET w == [World EXCEPT !.players[p].connectTimer = FALSE,
                            !.players[p].connectPromise = IF @ = "pending" THEN "rejected" ELSE @]
     IN Commit(Throw(Emit(w, p, "ERROR", "Timed out while connecting to the voice channel"),
                     "Timed out while connecting to the voice channel"), "connect_timeout", p)

\* settle the promise of connect(): `if (timedOut) clearTimeout(timedOut)` and
\* resolve or reject, which change nothing once the promise is settled
SettleConnect(w, p, how) ==
  [w EXCEPT !.players[p].connectTimer = FALSE,
            !.players[p].connectPromise = IF @ = "pending" THEN how ELSE @]

\* onConnect, the listener of connect() for CONNECTED, up to its first await
OnConnect(w, p) ==
  LET w1 == [w EXCEPT !.players[p].connectListeners = FALSE] IN
  IF w.players[p].becomeSpeaker
    THEN Spawn(w1, Task(p, "connect_channel", NullPos, TRUE, NoOptions))
    ELSE SettleConnect(w1, p, "resolved")

\* onConnect after `await this.manager.worker.api.channels.get(...)`
ConnectChannel(t, fulfils) ==
  /\ t \in tasks /\ t.pc = "connect_channel"
  /\ LET w == Finish(World, t)
         p == t.p
     IN IF ~fulfils THEN Commit(Throw(w, "request failed"), "connect_channel", p)
        ELSE IF players[p].voiceChannelId \in StageChannels
          THEN Commit(Spawn([w EXCEPT !.players[p].isStage = "true", !.players[p].isSpeaker = "false"],
                            Task(p, "connect_permissions", NullPos, TRUE, NoOptions)), "connect_channel", p)
          ELSE Commit(SettleConnect([w EXCEPT !.players[p].isStage = "false"], p, "resolved"), "connect_channel", p)

\* onConnect after `await this._getStagePermissions()`
ConnectPermissions(t, fulfils, permissions, ok) ==
  /\ t \in tasks /\ t.pc = "connect_permissions"
  /\ LET w == Finish(World, t)
         p == t.p
         w1 == IF players[p].currentVoiceChannel # Null THEN Disconnect(w, p, ok) ELSE w
     IN IF ~fulfils THEN Commit(Throw(w, "request failed"), "connect_permissions", p)
        ELSE IF permissions = "none"
          THEN Commit(Throw(SettleConnect(Emit(w1, p, "ERROR", "Failed to connect to the stage channel"), p, "rejected"),
                            "Failed to connect to the stage channel"), "connect_permissions", p)
          ELSE Commit(Spawn(w, [Task(p, "connect_patch", NullPos, TRUE, NoOptions) EXCEPT !.arg = permissions]),
                      "connect_permissions", p)

\* onConnect after the PATCH of the bot's voice state
ConnectPatch(t, fulfils) ==
  /\ t \in tasks /\ t.pc = "connect_patch"
  /\ LET w == Finish(World, t)
         p == t.p
         w1 == IF t.arg = "becomeSpeaker" THEN [w EXCEPT !.players[p].isSpeaker = "true"] ELSE w
     IN IF ~fulfils THEN Commit(Throw(w, "request failed"), "connect_patch", p)
        ELSE Commit(SettleConnect(w1, p, "resolved"), "connect_patch", p)

\* the last two statements of _handleMove
RecordVoiceState(w, p, newChannel, suppress) ==
  [w EXCEPT !.players[p].currentVoiceChannel = newChannel,
            !.players[p].lastVoiceState = IF suppress THEN "suppressed" ELSE "speaking"]

\* the speaker flag set to the suppressed flag itself
SpeakerFlagSuppressed(nowSuppressed) == IF nowSuppressed THEN "true" ELSE "false"

\* `this.isSpeaker = !nowSuppressed`
SpeakerFlag(nowSuppressed) == IF nowSuppressed THEN "false" ELSE "true"

\* a move that reports the null channel only
MovedAwayOnlyNull(voiceChannelId, newChannel) == newChannel = Null

\* `!nowCorrect || newChannel === null`: the update reports another channel
\* than the bound one, or none
MovedAway(voiceChannelId, newChannel) == voiceChannelId # newChannel \/ newChannel = Null

\* Player._handleMove(newChannel, data) up to its first await
HandleMove(w0, p, newChannel, nowSuppressed, ok) ==
  LET pl == w0.players[p]
      w == IF newChannel # pl.currentVoiceChannel THEN Emit(w0, p, "MOVED", "") ELSE w0
      wasCorrect == pl.voiceChannelId = pl.currentVoiceChannel
      nowCorrect == pl.voiceChannelId = newChannel
      wasSuppressed == pl.lastVoiceState = "suppressed"
      \* the moveBehavior 'pause' branch
      moved == IF pl.moveBehavior = "pause"
                 THEN IF pl.state = "PAUSED" /\ ~wasCorrect /\ nowCorrect
                        THEN PauseOrResume(w, p, FALSE, "Moved into the voice channel", ok)
                      ELSE IF pl.state = "PLAYING" /\ wasCorrect /\ ~nowCorrect
                        THEN PauseOrResume(w, p, TRUE, "Moved out of the voice channel", ok)
                      ELSE w
                 ELSE w
      staged == [moved EXCEPT !.players[p].isSpeaker = SpeakerFlag(nowSuppressed)]
  IN IF pl.state \in Active
       THEN IF pl.moveBehavior = "destroy" /\ MovedAway(pl.voiceChannelId, newChannel)
              THEN Destroy(w, p, "Player was moved out of the voice channel", ok)
            ELSE IF pl.isStage = "true" /\ pl.becomeSpeaker /\ pl.lastVoiceState # Null
              THEN IF pl.stageMoveBehavior = "destroy" /\ ~wasSuppressed /\ nowSuppressed
                     THEN Destroy(staged, p, "Player was moved to the audience", ok)
                   ELSE IF pl.stageMoveBehavior = "pause" /\ pl.state = "PAUSED" /\ wasSuppressed /\ ~nowSuppressed
                     THEN RecordVoiceState(PauseOrResume(staged, p, FALSE, "Became a speaker", ok), p, newChannel, nowSuppressed)
                   ELSE IF pl.stageMoveBehavior = "pause" /\ pl.state = "PLAYING" /\ ~wasSuppressed /\ nowSuppressed
                     THEN Spawn(PauseOrResume(staged, p, TRUE, "Moved to the audience", ok),
                                [Task(p, "move_permissions", NullPos, TRUE, NoOptions)
                                   EXCEPT !.arg = newChannel, !.reason = "suppressed"])
                   ELSE RecordVoiceState(staged, p, newChannel, nowSuppressed)
            ELSE RecordVoiceState(moved, p, newChannel, nowSuppressed)
     ELSE IF pl.state = "CONNECTING"
       THEN IF nowCorrect
              THEN LET w1 == Emit([w EXCEPT !.players[p].state = "CONNECTED"], p, "CONNECTED", "")
                       w2 == IF pl.connectListeners THEN OnConnect(w1, p) ELSE w1
                   IN RecordVoiceState(w2, p, newChannel, nowSuppressed)
              ELSE RecordVoiceState(Destroy(w, p, "Connected to incorrect channel", ok), p, newChannel, nowSuppressed)
     ELSE RecordVoiceState(w, p, newChannel, nowSuppressed)

\* _handleMove after `await this._getStagePermissions()`: a PATCH follows when
\* the bot may request to speak or become a speaker
MovePermissions(t, fulfils, permissions) ==
  /\ t \in tasks /\ t.pc = "move_permissions"
  /\ LET w == Finish(World, t)
     IN IF ~fulfils THEN Commit(Throw(w, "request failed"), "move_permissions", t.p)
        ELSE IF permissions = "none"
          THEN Commit(RecordVoiceState(w, t.p, t.arg, t.reason = "suppressed"), "move_permissions", t.p)
          ELSE Commit(Spawn(w, [t EXCEPT !.pc = "move_patch"]), "move_permissions", t.p)

\* _handleMove after the PATCH of the bot's voice state
MovePatch(t, fulfils) ==
  /\ t \in tasks /\ t.pc = "move_patch"
  /\ LET w == Finish(World, t)
     IN IF ~fulfils THEN Commit(Throw(w, "request failed"), "move_patch", t.p)
        ELSE Commit(RecordVoiceState(w, t.p, t.arg, t.reason = "suppressed"), "move_patch", t.p)

\* LavalinkManager._handleVoiceUpdate('VOICE_STATE_UPDATE', data) for the
\* bot's own voice state: routed to the Player registered for the guild
VoiceStateUpdate(guildId, newChannel, suppress, ok) ==
  /\ managerPlayers[guildId] # 0
 
  /\ Commit(HandleMove(World, managerPlayers[guildId], newChannel, suppress, ok),
            "voiceStateUpdate", managerPlayers[guildId])

\* -------------------------------------------------------------------- Node
\* NodeOptions as given to the constructor: Unset for a key left undefined
NodeOptionsGiven == [connectionTimeout : {Unset} \cup 1..MaxDelay,
                     retryDelay : {Unset} \cup 1..MaxDelay,
                     maxRetrys : {Unset} \cup 0..MaxRetrysBound]

\* `options.x ?? default`
OrDefault(x, default) == IF x = Unset THEN default ELSE x

\* this.options of the Node constructor
CompleteNodeOptions(options) ==
  [connectionTimeout |-> OrDefault(options.connectionTimeout, DefaultConnectionTimeout),
   retryDelay |-> OrDefault(options.retryDelay, DefaultRetryDelay),
   maxRetrys |-> OrDefault(options.maxRetrys, DefaultMaxRetrys)]

\* the comparison of the Node constructor: it throws when this holds
ConstructorThrows(options) ==
  CompleteNodeOptions(options).connectionTimeout > CompleteNodeOptions(options).retryDelay

\* A WebSocket object of a node that may still raise an event: its phase, the
\* listeners on it ("once": the error and open listeners of connect(); "error":
\* only the error listener of connect(); "on": the four permanent listeners),
\* the timeout of the connect() that made it, that call's promise, and whether
\* the call came from the reconnect interval (whose catch counts the failure),
\* or from tryConnect of connectNodes (which goes on when the call settles).
FreeSocket == [phase |-> "free", listening |-> "none", timer |-> Unset,
               promise |-> "none", counted |-> FALSE, tryConnect |-> FALSE]

\* the fields of a new Node
NewNode(options) ==
  [state |-> "DISCONNECTED", reconnectAttempts |-> 0, reconnectTimeout |-> Unset,
   ws |-> 0, sockets |-> [i \in 1..MaxSockets |-> FreeSocket],
   listeners |-> TRUE, stats |-> FreshStats,
   order |-> <<>>,              \* the armed timers of the node, in the order they were armed in
   connectionTimeout |-> CompleteNodeOptions(options).connectionTimeout,
   retryDelay |-> CompleteNodeOptions(options).retryDelay,
   maxRetrys |-> CompleteNodeOptions(options).maxRetrys]

\* connectNodes has not been called: no attempts, no interval, no promise
NoConnectAll == [n \in NodeIds |-> [attempts |-> 0, interval |-> Unset, promise |-> "none"]]

NodeEvent(n, type, reason) == [kind |-> "node", id |-> n, type |-> type, reason |-> reason]
NodeEmit(w, n, type, reason) ==
  IF w.nodes[n].listeners THEN [w EXCEPT !.emitted = @ \cup {NodeEvent(n, type, reason)}] ELSE w

\* Node.send(msg) called by the application, up to the write on the socket.
\* The suspended call keeps the node in `p`.
Send(n, ok) ==
  /\ n \in DOMAIN nodes
  /\ LET w1 == NodeSend(World, n, Frame("stop", "g1", 0, NoVolume, FALSE), ok)
     IN IF w1.r = "Cannot send payloads before a connection is established"
          THEN Commit(Throw(World, w1.r), "send", n)
        ELSE IF w1.r = "never settles" THEN Commit(World, "send", n)
        ELSE Commit(Spawn(w1, [Task(n, "node_send", NullPos, w1.r = "", NoOptions) EXCEPT !.arg = w1.r]),
                    "send", n)

\* the callback of this.ws.send: on an error the node emits ERROR and the call
\* rejects
SendWritten(t) ==
  /\ t \in tasks /\ t.pc = "node_send"
  /\ LET w == Finish(World, t)
     IN IF t.ok THEN Commit(w, "send_written", t.p)
        ELSE Commit(Throw(NodeEmit(w, t.p, "ERROR", t.arg), t.arg), "send_written", t.p)

\* a socket nothing can happen to any more is forgotten
Inert(node, i) ==
  /\ node.sockets[i].listening = "none" /\ node.sockets[i].timer = Unset /\ node.ws # i
Collect(w, n) ==
  [w EXCEPT !.nodes[n].sockets = [i \in 1..MaxSockets |->
                                    IF Inert(w.nodes[n], i) THEN FreeSocket ELSE @[i]]]
HasFreeSocket(n) == \E i \in 1..MaxSockets : nodes[n].sockets[i].phase = "free"

\* this.ws?.removeAllListeners()
RemoveSocketListeners(w, n) ==
  IF w.nodes[n].ws = 0 THEN w ELSE [w EXCEPT !.nodes[n].sockets[w.nodes[n].ws].listening = "none"]

\* tryConnect of connectNodes after `await node.connect().catch(() => attempts++)`
AfterConnect(w, n) ==
  IF w.nodes[n].state = "CONNECTED"
    THEN [w EXCEPT !.connectAll[n].interval = Unset,
                   !.connectAll[n].promise = IF @ = "pending" THEN "resolved" ELSE @]
    ELSE w

\* reject / resolve of the connect() that made socket i, and clearTimeout;
\* the catch of the reconnect interval counts a rejection
RejectConnect(w, n, i) ==
  LET sock == w.nodes[n].sockets[i]
      w1 == [w EXCEPT !.nodes[n].sockets[i].promise = IF @ = "pending" THEN "rejected" ELSE @,
                      !.nodes[n].sockets[i].timer = Unset,
                      !.nodes[n].reconnectAttempts =
                         IF sock.promise = "pending" /\ sock.counted THEN @ + 1 ELSE @]
  IN IF sock.promise = "pending" /\ sock.tryConnect
       THEN AfterConnect([w1 EXCEPT !.connectAll[n].attempts = @ + 1], n) ELSE w1
ResolveConnect(w, n, i) ==
  LET sock == w.nodes[n].sockets[i]
      w1 == [w EXCEPT !.nodes[n].sockets[i].promise = IF @ = "pending" THEN "resolved" ELSE @,
                      !.nodes[n].sockets[i].timer = Unset]
  IN IF sock.promise = "pending" /\ sock.tryConnect THEN AfterConnect(w1, n) ELSE w1

\* Node.connect() past its state check: a new WebSocket and its timeout
OpenSocket(w, n, counted) ==
  LET node == w.nodes[n]
      i == CHOOSE j \in 1..MaxSockets : node.sockets[j].phase = "free"
  IN [w EXCEPT !.nodes[n].sockets[i] = [phase |-> "connecting", listening |-> "once",
                                        timer |-> node.connectionTimeout,
                                        promise |-> "pending", counted |-> counted,
                                        tryConnect |-> FALSE],
               !.nodes[n].ws = i,
               !.nodes[n].state = IF @ # "RECONNECTING" THEN "CONNECTING" ELSE @]

\* a connect() that does not look at the state of the node
NodeConnectUnchecked(n) ==
  /\ n \in DOMAIN nodes /\ HasFreeSocket(n)
  /\ Commit(Collect(OpenSocket(World, n, FALSE), n), "node_connect", n)

\* a call of Node.connect() by the application
NodeConnect(n) ==
  /\ n \in DOMAIN nodes /\ HasFreeSocket(n)
  /\ IF nodes[n].state \notin {"DISCONNECTED", "RECONNECTING"}
       THEN Commit(Throw(World, "Cannot initiate a connection when the node isn't in a disconnected or reconnecting state"),
                   "node_connect", n)
       ELSE Commit(Collect(OpenSocket(World, n, FALSE), n), "node_connect", n)

\* Node._onOpen
OnOpen(w, n) ==
  NodeEmit([w EXCEPT !.nodes[n].reconnectTimeout = Unset, !.nodes[n].state = "CONNECTED"],
           n, "CONNECTED", "")

\* Node.reconnect()
Reconnect(w, n) ==
  [w EXCEPT !.nodes[n].state = "RECONNECTING", !.nodes[n].reconnectTimeout = w.nodes[n].retryDelay]

\* Node._onClose(code, reason)
OnClose(w, n, code, reason) ==
  LET w1 == NodeEmit([w EXCEPT !.nodes[n].state = "DISCONNECTED"], n, "DISCONNECTED", reason)
  IN IF code # NormalClosure /\ reason # "destroy" THEN Reconnect(w1, n) ELSE w1

\* the 'open' event of socket i
WsOpen(n, i) ==
  /\ nodes[n].sockets[i].phase = "connecting"
  /\ nodes[n].sockets[i].listening \in {"once", "on"}
  /\ LET node == nodes[n]
         w == [World EXCEPT !.nodes[n].sockets[i].phase = "open"]
     IN IF node.sockets[i].listening = "on" THEN Commit(OnOpen(w, n), "ws_open", n)
        \* the once('open') listener of connect(): it works on this.ws
        ELSE IF node.ws = 0
          THEN Commit(Collect(Throw([w EXCEPT !.nodes[n].sockets[i].listening = "error"],
                                    "TypeError: Cannot read property 'removeAllListeners' of null"), n),
                      "ws_open", n)
          ELSE LET w1 == [w EXCEPT !.nodes[n].sockets[i].listening = "error"]
                   w2 == OnOpen(RemoveSocketListeners(w1, n), n)
                   w3 == [w2 EXCEPT !.nodes[n].sockets[node.ws].listening = "on"]
               IN Commit(Collect(ResolveConnect(w3, n, i), n), "ws_open", n)

\* the 'error' event of socket i
WsError(n, i) ==
  /\ nodes[n].sockets[i].phase \in {"connecting", "open"}
  /\ nodes[n].sockets[i].listening # "none"
  /\ LET node == nodes[n]
         w == World
     IN IF node.sockets[i].listening = "on" THEN Commit(NodeEmit(w, n, "ERROR", "socket error"), "ws_error", n)
        \* the once('error') listener of connect(): it works on this.ws
        ELSE IF node.ws = 0
          THEN Commit(Collect(Throw([w EXCEPT !.nodes[n].sockets[i].listening = "none"],
                                    "TypeError: Cannot read property 'removeAllListeners' of null"), n),
                      "ws_error", n)
          ELSE LET w1 == [RemoveSocketListeners(w, n) EXCEPT !.nodes[n].sockets[i].listening = "none"]
                   w2 == [w1 EXCEPT !.nodes[n].ws = 0,
                                    !.nodes[n].state = IF @ # "RECONNECTING" THEN "DISCONNECTED" ELSE @]
                   w3 == NodeEmit(w2, n, "ERROR", "socket error")
               IN Commit(Collect(Throw(RejectConnect(w3, n, i), "socket error"), n), "ws_error", n)

\* the 'close' event of an open socket
WsClose(n, i, code, reason) ==
  /\ nodes[n].sockets[i].phase = "open"
  /\ nodes[n].sockets[i].listening = "on"
  /\ LET w == [World EXCEPT !.nodes[n].sockets[i].phase = "closed",
                            !.nodes[n].sockets[i].listening = "none"]
     IN Commit(Collect(OnClose(w, n, code, reason), n), "ws_close", n)

\* the timeout of a connect() fires
ConnectionTimeout(n, i) ==
  /\ nodes[n].sockets[i].timer = 0
  /\ MayFire(n, i)
  /\ LET w == NodeEmit(World, n, "ERROR", "Timed out while connecting to the lavalink server")
     IN Commit(Collect(Throw(RejectConnect(w, n, i), "Timed out while connecting to the lavalink server"), n),
               "connection_timeout", n)

\* Node._onMessage for a stats frame: the Players' listeners drop it, as it
\* has no guildId
OnStats(n, stats) ==
  /\ \E i \in DOMAIN nodes[n].sockets :
       nodes[n].sockets[i].phase = "open" /\ nodes[n].sockets[i].listening = "on"
  /\ Commit([World EXCEPT !.nodes[n].stats = stats], "stats", n)

\* the Players of the manager's table attached to node n, destroyed in turn
RECURSIVE DestroyAttached(_, _, _, _)
DestroyAttached(w, n, ok, p) ==
  IF p > Len(w.players) THEN w
  ELSE DestroyAttached(IF w.players[p].node = n /\ w.managerPlayers[w.players[p].guildId] = p
                         THEN Destroy(w, p, "Attached node destroyed", ok) ELSE w,
                       n, ok, p + 1)

\* Node.destroy(reason)
DestroyNode(w, n, reason, ok) ==
  LET node == w.nodes[n]
      w1 == IF node.ws = 0 THEN w
            ELSE [w EXCEPT !.nodes[n].sockets[node.ws].phase = "closed",
                           !.nodes[n].sockets[node.ws].listening = "none",
                           !.nodes[n].ws = 0]
      w2 == [w1 EXCEPT !.nodes[n].reconnectAttempts = 0, !.nodes[n].reconnectTimeout = Unset]
      w3 == DestroyAttached(w2, n, ok, 1)
      w4 == NodeEmit([w3 EXCEPT !.nodes[n].state = "DESTROYED"], n, "DESTROYED", reason)
  IN Collect([w4 EXCEPT !.nodes[n].listeners = FALSE, !.managerNodes = @ \ {n}], n)

\* a call of Node.destroy() by the application
NodeDestroy(n, ok) ==
  /\ n \in DOMAIN nodes
  /\ Commit(DestroyNode(World, n, "Manual destroy", ok), "node_destroy", n)

\* a tick of the interval of reconnect()
ReconnectTick(n, ok) ==
  /\ nodes[n].reconnectTimeout = 0
  /\ MayFire(n, ReconnectTimer)
  /\ LET node == nodes[n]
         w == [World EXCEPT !.nodes[n].reconnectTimeout = node.retryDelay]
     IN IF node.maxRetrys # 0 /\ node.reconnectAttempts >= node.maxRetrys
          THEN Commit(DestroyNode(NodeEmit(w, n, "ERROR", "Unable to reconnect"), n, "Manual destroy", ok),
                      "reconnect_tick", n)
          ELSE /\ \E i \in 1..MaxSockets : Collect([RemoveSocketListeners(w, n) EXCEPT !.nodes[n].ws = 0], n).nodes[n].sockets[i].phase = "free"
               /\ LET w1 == Collect([RemoveSocketListeners(w, n) EXCEPT !.nodes[n].ws = 0], n)
                      w2 == NodeEmit([w1 EXCEPT !.nodes[n].state = "RECONNECTING"], n, "RECONNECTING", "")
                  IN Commit(Collect(OpenSocket(w2, n, TRUE), n), "reconnect_tick", n)

\* tryConnect of connectNodes up to its await of node.connect(); a connect()
\* that throws settles at once and tryConnect goes on
TryConnect(w, n) ==
  LET node == w.nodes[n]
      c == w.connectAll[n]
      w1 == IF node.maxRetrys # 0 /\ c.attempts >= node.maxRetrys
              THEN [NodeEmit(w, n, "ERROR", "Unable to connect") EXCEPT
                      !.connectAll[n].interval = Unset,
                      !.connectAll[n].promise = IF @ = "pending" THEN "rejected" ELSE @]
              ELSE w
  IN IF node.state \notin {"DISCONNECTED", "RECONNECTING"}
       THEN AfterConnect([w1 EXCEPT !.connectAll[n].attempts = @ + 1], n)
       ELSE LET w2 == OpenSocket(w1, n, FALSE)
            IN Collect([w2 EXCEPT !.nodes[n].sockets[w2.nodes[n].ws].tryConnect = TRUE], n)

\* LavalinkManager.connectNodes() up to its await of Promise.allSettled: for
\* every node of the pool, tryConnect() and its interval
RECURSIVE ConnectEach(_, _)
ConnectEach(w, n) ==
  IF n \notin DOMAIN w.nodes THEN w
  ELSE IF n \notin w.managerNodes THEN ConnectEach(w, n + 1)
  \* the interval is armed before the continuation of tryConnect's await runs
  ELSE ConnectEach(TryConnect([w EXCEPT !.connectAll[n] =
                                 [attempts |-> 0, interval |-> w.nodes[n].retryDelay,
                                  promise |-> "pending"]], n), n + 1)

ConnectNodes ==
  /\ \A n \in DOMAIN nodes : connectAll[n].promise = "none" /\ HasFreeSocket(n)
  /\ Commit(ConnectEach(World, 0), "connectNodes", 0)

\* a tick of the interval of connectNodes for node n
ConnectTick(n) ==
  /\ connectAll[n].interval = 0
  /\ MayFire(n, ConnectAllTimer)
  /\ nodes[n].state \in {"DISCONNECTED", "RECONNECTING"} => HasFreeSocket(n)
  /\ Commit(TryConnect([World EXCEPT !.connectAll[n].interval = nodes[n].retryDelay], n),
            "connect_tick", n)

\* the timers that are armed, as (node, remaining ticks)
ArmedTimers ==
  {nodes[n].reconnectTimeout : n \in DOMAIN nodes} \cup
  {nodes[n].sockets[i].timer : n \in DOMAIN nodes, i \in 1..MaxSockets} \cup
  {connectAll[n].interval : n \in DOMAIN nodes}

\* time passes: one tick, when no armed timer is due
Tick ==
  /\ 0 \notin ArmedTimers
  /\ \E x \in ArmedTimers : x # Unset
  /\ LET dec(x) == IF x = Unset THEN Unset ELSE x - 1
         w == [World EXCEPT !.nodes = [n \in DOMAIN nodes |->
                 [@[n] EXCEPT !.reconnectTimeout = dec(@),
                              !.sockets = [i \in 1..MaxSockets |-> [@[i] EXCEPT !.timer = dec(@)]]]],
                           !.connectAll = [n \in DOMAIN nodes |-> [@[n] EXCEPT !.interval = dec(@)]]]
     IN Commit(w, "tick", 0)

\* ------------------------------------------------- the playback specification
\* A node whose connection is established: connect() resolved on socket 1
ConnectedNode ==
  [NewNode([connectionTimeout |-> Unset, retryDelay |-> Unset, maxRetrys |-> Unset])
     EXCEPT !.state = "CONNECTED", !.ws = 1,
            !.sockets[1] = [phase |-> "open", listening |-> "on", timer |-> Unset,
                            promise |-> "resolved", counted |-> FALSE, tryConnect |-> FALSE]]

\* A Player whose connect() resolved in its (non-stage) voice channel
ConnectedPlayer(guildId, voiceChannelId) ==
  [NewPlayer(guildId, voiceChannelId, 0, DefaultPlayerOptions)
     EXCEPT !.state = "CONNECTED", !.currentVoiceChannel = voiceChannelId,
            !.lastVoiceState = "speaking", !.isStage = "false", !.connectPromise = "resolved"]

NoPlayers == [g \in Guilds |-> 0]

\* the arguments of play(): one entry or a list of entries
PlayEntries == {Track(1), Track(2), TrackPartial(1), EmptyTrack(2)}
PlayLists == {<<e>> : e \in PlayEntries} \cup {<<e, f>> : e \in PlayEntries, f \in {Track(2), TrackPartial(1)}}
\* what manager.resolveTrack can settle with: a Track, or a rejection
ResolveResults == {Track(i) : i \in TrackIds} \cup {Undefined}
\* the event frames and player updates a node delivers
EventPayloads ==
  {Payload("event", g, "TrackEndEvent", reason, NullPos, FALSE) : g \in Guilds, reason \in {"FINISHED", "STOPPED"}}
  \cup {Payload("event", g, type, "", NullPos, FALSE) : g \in Guilds, type \in {"TrackStartEvent", "TrackStuckEvent", "TrackExceptionEvent"}}
  \cup {Payload("event", g, "TrackEndEvent", "FINISHED", NullPos, TRUE) : g \in Guilds}

Init ==
  /\ players = <<ConnectedPlayer("g1", "vc1")>>
  /\ managerPlayers = [NoPlayers EXCEPT !["g1"] = 1]
  /\ nodes = [n \in NodeIds |-> ConnectedNode]
  /\ managerNodes = NodeIds
  /\ tasks = {}
  /\ sent = <<>>
  /\ emitted = {}
  /\ thrown = ""
  /\ last = [op |-> "init", id |-> 0]
  /\ resolve = NoCall
  /\ connectAll = NoConnectAll

Next ==
  \/ \E p \in DOMAIN players, list \in PlayLists, ok \in BOOLEAN : Play(p, list, NoOptions, ok)
  \/ \E t \in tasks, res \in ResolveResults, ok \in BOOLEAN : Resolved(t, res, ok)
  \/ \E t \in tasks : Sent(t)
  \/ \E p \in DOMAIN players, ok \in BOOLEAN : Skip(p, FALSE, NullPos, ok)
  \/ \E p \in DOMAIN players, index \in 0..MaxQueue, ok \in BOOLEAN : Skip(p, TRUE, index, ok)
  \/ \E t \in tasks, ok \in BOOLEAN : SkipStopped(t, ok)
  \/ \E p \in DOMAIN players, ok \in BOOLEAN : Shuffle(p, ok)
  \/ \E t \in tasks, ok \in BOOLEAN : ShuffleStopped(t, ok)
  \/ \E p \in DOMAIN players, ok \in BOOLEAN : Pause(p, ok)
  \/ \E p \in DOMAIN players, ok \in BOOLEAN : Resume(p, ok)
  \/ \E t \in tasks : PauseSent(t)
  \/ \E t \in tasks : ResumeSent(t)
  \/ \E p \in DOMAIN players, ok \in BOOLEAN : Stop(p, ok)
  \/ \E t \in tasks : StopStopped(t)
  \/ \E p \in DOMAIN players, stop \in BOOLEAN, ok \in BOOLEAN : Clear(p, stop, ok)
  \/ \E t \in tasks : ClearStopped(t)
  \/ \E p \in DOMAIN players, type \in LoopType : SetLoop(p, type)
  \/ \E t \in tasks, res \in ResolveResults, ok \in BOOLEAN : AdvanceResolved(t, res, ok)
  \/ \E t \in tasks, ok \in BOOLEAN : AdvanceSent(t, ok)
  \/ \E n \in NodeIds, payload \in EventPayloads, ok \in BOOLEAN : OnMessage(n, payload, ok)
  \/ \E t \in tasks, fulfils \in BOOLEAN, ok \in BOOLEAN : Decoded(t, fulfils, ok)
  \/ \E t \in tasks, ok \in BOOLEAN : StuckStopped(t, ok)

Spec == Init /\ [][Next]_vars

\* ------------------------------------- the specification of Player lifetimes
\* createPlayer, connect, the gateway's voice state updates, destroy and the
\* node's event frames, on a manager whose node is connected; the Players are
\* made for one guild and its voice channel vc1, which is no stage channel,
\* with the default options
LifePayloads ==
  {Payload("event", g, "TrackEndEvent", "FINISHED", NullPos, FALSE) : g \in Guilds}
  \cup {Payload("event", g, "TrackStartEvent", "", NullPos, FALSE) : g \in Guilds}

InitLife ==
  /\ players = <<>>
  /\ managerPlayers = NoPlayers
  /\ nodes = [n \in NodeIds |-> ConnectedNode]
  /\ managerNodes = NodeIds
  /\ tasks = {}
  /\ sent = <<>>
  /\ emitted = {}
  /\ thrown = ""
  /\ last = [op |-> "init", id |-> 0]
  /\ resolve = NoCall
  /\ connectAll = NoConnectAll

NextLife ==
  \/ CreatePlayer("g1", "vc1", DefaultPlayerOptions)
  \/ \E p \in DOMAIN players, ok \in BOOLEAN : DestroyPlayer(p, ok)
  \/ \E p \in DOMAIN players : Connect(p)
  \/ \E p \in DOMAIN players : ConnectTimeout(p)
  \/ \E g \in Guilds, c \in Channels \cup {Null}, ok \in BOOLEAN : VoiceStateUpdate(g, c, FALSE, ok)
  \/ \E t \in tasks, fulfils \in BOOLEAN : ConnectChannel(t, fulfils)
  \/ \E t \in tasks : Disconnected(t)
  \/ \E n \in NodeIds, payload \in LifePayloads : OnMessage(n, payload, TRUE)

SpecLife == InitLife /\ [][NextLife]_vars

\* ------------------------------------------ the specification of a Node's life
\* the manager's constructor has made the nodes from nodeOptions that the Node
\* constructor accepts, with a limit on the reconnect attempts; time passes in
\* ticks
InitNode ==
  /\ \E options \in NodeOptionsGiven :
       /\ ~ConstructorThrows(options)
       /\ options.maxRetrys \in 1..MaxRetrysBound
       /\ nodes = [n \in NodeIds |-> NewNode(options)]
  /\ players = <<>>
  /\ managerPlayers = NoPlayers
  /\ managerNodes = NodeIds
  /\ tasks = {}
  /\ sent = <<>>
  /\ emitted = {}
  /\ thrown = ""
  /\ last = [op |-> "init", id |-> 0]
  /\ resolve = NoCall
  /\ connectAll = NoConnectAll

CloseCodes == {NormalClosure, AbnormalClosure}

NextNode ==
  \/ \E n \in NodeIds : NodeConnect(n)
  \/ \E n \in NodeIds, i \in 1..MaxSockets : WsOpen(n, i)
  \/ \E n \in NodeIds, i \in 1..MaxSockets : WsError(n, i)
  \/ \E n \in NodeIds, i \in 1..MaxSockets, code \in CloseCodes : WsClose(n, i, code, "")
  \/ \E n \in NodeIds, i \in 1..MaxSockets : ConnectionTimeout(n, i)
  \/ \E n \in NodeIds : ReconnectTick(n, TRUE)
  \/ Tick
  \/ \E n \in NodeIds : NodeDestroy(n, TRUE)
  \/ CreatePlayer("g1", "vc1", DefaultPlayerOptions)
  \/ \E p \in DOMAIN players : DestroyPlayer(p, TRUE)

SpecNode == InitNode /\ [][NextNode]_vars

\* ------------------------------------------- the specification of the volume
\* setVolume and play with and without a volume option, with the operations
\* that send play frames, on one connected Player
VolumePlayLists == {<<Track(1)>>, <<TrackPartial(2)>>, <<Track(1), Track(2)>>}
\* setVolume arguments: the default, two other volumes, one past the range
SetVolumes == {DefaultVolume, 250, 40, MaxVolume + 1}
\* PlayOptions: none, or a volume
VolumeOptions == {NoOptions, [NoOptions EXCEPT !.volume = 50], [NoOptions EXCEPT !.volume = DefaultVolume]}
VolumePayloads ==
  {Payload("event", "g1", "TrackEndEvent", "FINISHED", NullPos, FALSE),
   Payload("event", "g1", "TrackStartEvent", "", NullPos, FALSE)}

NextVolume ==
  \/ \E p \in DOMAIN players, volume \in SetVolumes, ok \in BOOLEAN : SetVolume(p, volume, ok)
  \/ \E t \in tasks : SetVolumeSent(t)
  \/ \E p \in DOMAIN players, list \in VolumePlayLists, opts \in VolumeOptions : Play(p, list, opts, TRUE)
  \/ \E t \in tasks, res \in {Track(2)} : Resolved(t, res, TRUE)
  \/ \E t \in tasks : Sent(t)
  \/ \E p \in DOMAIN players : Skip(p, FALSE, NullPos, TRUE)
  \/ \E t \in tasks : SkipStopped(t, TRUE)
  \/ \E p \in DOMAIN players : Shuffle(p, TRUE)
  \/ \E t \in tasks : ShuffleStopped(t, TRUE)
  \/ \E p \in DOMAIN players, type \in {"off", "queue"} : SetLoop(p, type)
  \/ \E t \in tasks, res \in {Track(2)} : AdvanceResolved(t, res, TRUE)
  \/ \E t \in tasks : AdvanceSent(t, TRUE)
  \/ \E n \in NodeIds, payload \in VolumePayloads : OnMessage(n, payload, TRUE)

SpecVolume == Init /\ [][NextVolume]_vars

\* ------------------------------------- the specification of the queue advance
\* play() of valid entries, setLoop, and the track-end and track-start events
\* of the node on one connected Player: every queue advance is started by a
\* TrackEndEvent with reason FINISHED
AdvancePlayLists ==
  {<<Track(1)>>, <<TrackPartial(1)>>, <<Track(1), Track(2)>>, <<Track(2), TrackPartial(1)>>}
AdvanceResolveResults == {Track(2), Undefined}
AdvancePayloads ==
  {Payload("event", "g1", "TrackEndEvent", "FINISHED", NullPos, FALSE),
   Payload("event", "g1", "TrackStartEvent", "", NullPos, FALSE)}

NextAdvance ==
  \/ \E p \in DOMAIN players, list \in AdvancePlayLists : Play(p, list, NoOptions, TRUE)
  \/ \E t \in tasks, res \in AdvanceResolveResults : Resolved(t, res, TRUE)
  \/ \E t \in tasks : Sent(t)
  \/ \E p \in DOMAIN players, type \in LoopType : SetLoop(p, type)
  \/ \E n \in NodeIds, payload \in AdvancePayloads, ok \in BOOLEAN : OnMessage(n, payload, ok)
  \/ \E t \in tasks, res \in AdvanceResolveResults, ok \in BOOLEAN : AdvanceResolved(t, res, ok)
  \/ \E t \in tasks, ok \in BOOLEAN : AdvanceSent(t, ok)

SpecAdvance == Init /\ [][NextAdvance]_vars

\* ------------------------------------ the specification of track resolution
\* one resolveTrack call: its TrackPartial, then the outcome of its search
MaxCandidates == 3
HintAuthors == {NoString, Abba, ADotBa}
HintLengths == {Unset, 0, 1500, 3000}
CandidateAuthors == {abba, ABBATOPIC, Queen}
CandidateLengths == {0, 1000, 3200, 3201}
Hints == {Hint(a, l) : a \in HintAuthors, l \in HintLengths}
Candidates == {Candidate(a, l) : a \in CandidateAuthors, l \in CandidateLengths}
CandidateLists == UNION {[1..n -> Candidates] : n \in 0..MaxCandidates}
\* what search can fulfil with: the answer of the node's /loadtracks, or the
\* TrackPartial of a Spotify track
SearchResults ==
  {[loadType |-> lt, tracks |-> s] : lt \in {"SEARCH_RESULT", "PLAYLIST_LOADED"}, s \in CandidateLists}
  \cup {[loadType |-> "NO_MATCHES", tracks |-> <<>>],
        [loadType |-> "TRACK_LOADED", tracks |-> <<PartialCandidate>>]}
SearchErrors == {"No available nodes to perform a search", "No search response data"}

InitResolve ==
  /\ players = <<>>
  /\ managerPlayers = NoPlayers
  /\ nodes = [n \in NodeIds |-> ConnectedNode]
  /\ managerNodes = NodeIds
  /\ tasks = {}
  /\ sent = <<>>
  /\ emitted = {}
  /\ thrown = ""
  /\ last = [op |-> "init", id |-> 0]
  /\ resolve = NoCall
  /\ connectAll = NoConnectAll

NextResolve ==
  \/ \E track \in Hints : ResolveTrackCall(track)
  \/ \E search \in SearchResults : SearchFulfilled(search)
  \/ \E error \in SearchErrors : SearchRejected(error)

SpecResolve == InitResolve /\ [][NextResolve]_vars

\* ---------------------------------------- the specification of connectNodes
\* The nodes as constructed, connectNodes, the application's connect() and
\* destroy(), the socket events and the three timers.
InitConnectAll ==
  /\ \E options \in NodeOptionsGiven :
       /\ ~ConstructorThrows(options)
       /\ options.maxRetrys \in 1..MaxRetrysBound
       /\ nodes = [n \in NodeIds |-> NewNode(options)]
  /\ players = <<>>
  /\ managerPlayers = NoPlayers
  /\ managerNodes = NodeIds
  /\ tasks = {}
  /\ sent = <<>>
  /\ emitted = {}
  /\ thrown = ""
  /\ last = [op |-> "init", id |-> 0]
  /\ resolve = NoCall
  /\ connectAll = NoConnectAll

NextConnectAll ==
  \/ ConnectNodes
  \/ \E n \in NodeIds : ConnectTick(n)
  \/ \E n \in NodeIds : NodeConnect(n)
  \/ \E n \in NodeIds, i \in 1..MaxSockets : WsOpen(n, i)
  \/ \E n \in NodeIds, i \in 1..MaxSockets : WsError(n, i)
  \/ \E n \in NodeIds, i \in 1..MaxSockets, code \in CloseCodes : WsClose(n, i, code, "")
  \/ \E n \in NodeIds, i \in 1..MaxSockets : ConnectionTimeout(n, i)
  \/ \E n \in NodeIds : ReconnectTick(n, TRUE)
  \/ Tick
  \/ \E n \in NodeIds : NodeDestroy(n, TRUE)

SpecConnectAll == InitConnectAll /\ [][NextConnectAll]_vars

\* --------------------------- the specification of connectNodes on two nodes
\* Two nodes with their own maxRetrys, connectNodes, and what the sockets and
\* the timers of the connection attempts do.
PairSize == 2
PairIds == 0..(PairSize - 1)
PairOptions == [connectionTimeout : 1..MaxDelay, retryDelay : 1..MaxDelay, maxRetrys : 1..MaxRetrysBound]

InitConnectPair ==
  /\ \E options \in [PairIds -> PairOptions] :
       /\ \A n \in PairIds : ~ConstructorThrows(options[n])
       /\ nodes = [n \in PairIds |-> NewNode(options[n])]
  /\ players = <<>>
  /\ managerPlayers = NoPlayers
  /\ managerNodes = PairIds
  /\ tasks = {}
  /\ sent = <<>>
  /\ emitted = {}
  /\ thrown = ""
  /\ last = [op |-> "init", id |-> 0]
  /\ resolve = NoCall
  /\ connectAll = [n \in PairIds |-> [attempts |-> 0, interval |-> Unset, promise |-> "none"]]

NextConnectPair ==
  \/ ConnectNodes
  \/ \E n \in PairIds : ConnectTick(n)
  \/ \E n \in PairIds, i \in 1..MaxSockets : WsOpen(n, i)
  \/ \E n \in PairIds, i \in 1..MaxSockets : WsError(n, i)
  \/ \E n \in PairIds, i \in 1..MaxSockets : ConnectionTimeout(n, i)
  \/ Tick

SpecConnectPair == InitConnectPair /\ [][NextConnectPair]_vars

\* ------------------------------------------ the specification of the timers
\* A connected node with a Player on it: the socket closes, the reconnect
\* interval and connectNodes make connection attempts, the Player connects,
\* and the node or the Player is destroyed.
TimerOptions == [connectionTimeout : 1..MaxDelay, retryDelay : {MaxDelay}, maxRetrys : {1}]

InitTimers ==
  /\ \E options \in TimerOptions :
       /\ ~ConstructorThrows(options)
       /\ nodes = [n \in NodeIds |->
                     [NewNode(options) EXCEPT !.state = ConnectedNode.state, !.ws = ConnectedNode.ws,
                                              !.sockets = ConnectedNode.sockets]]
  /\ players = <<NewPlayer("g1", "vc1", 0, DefaultPlayerOptions)>>
  /\ managerPlayers = [NoPlayers EXCEPT !["g1"] = 1]
  /\ managerNodes = NodeIds
  /\ tasks = {}
  /\ sent = <<>>
  /\ emitted = {}
  /\ thrown = ""
  /\ last = [op |-> "init", id |-> 0]
  /\ resolve = NoCall
  /\ connectAll = NoConnectAll

NextTimers ==
  \/ ConnectNodes
  \/ \E n \in NodeIds : ConnectTick(n)
  \/ \E n \in NodeIds, i \in 1..MaxSockets : WsOpen(n, i)
  \/ \E n \in NodeIds, i \in 1..MaxSockets : WsError(n, i)
  \/ \E n \in NodeIds, i \in 1..MaxSockets : WsClose(n, i, AbnormalClosure, "")
  \/ \E n \in NodeIds, i \in 1..MaxSockets : ConnectionTimeout(n, i)
  \/ \E n \in NodeIds : ReconnectTick(n, TRUE)
  \/ Tick
  \/ \E n \in NodeIds : NodeDestroy(n, TRUE)
  \/ \E p \in DOMAIN players : Connect(p)
  \/ \E p \in DOMAIN players : ConnectTimeout(p)
  \/ \E p \in DOMAIN players : DestroyPlayer(p, TRUE)

SpecTimers == InitTimers /\ [][NextTimers]_vars

\* ------------------------------------ the specification of the move policies
\* A connected Player with any move options, on an ordinary channel or on a
\* stage: it plays, the gateway delivers voice state updates, and the pause
\* and resume frames and the speaker negotiation complete.
MovePlayer(opt, stage, lastVoiceState, isSpeaker) ==
  [NewPlayer("g1", IF stage THEN "vc2" ELSE "vc1", 0, opt)
     EXCEPT !.state = "CONNECTED",
            !.currentVoiceChannel = IF stage THEN "vc2" ELSE "vc1",
            !.lastVoiceState = lastVoiceState,
            !.isStage = IF stage THEN "true" ELSE IF opt.becomeSpeaker THEN "false" ELSE Null,
            !.isSpeaker = IF stage THEN isSpeaker ELSE Null,
            !.connectPromise = "resolved"]

InitMove ==
  /\ \E opt \in PlayerOptions, stage \in BOOLEAN, lastVoiceState \in {"speaking", "suppressed"},
        isSpeaker \in {"true", "false"} :
       /\ stage => opt.becomeSpeaker
       /\ ~stage => lastVoiceState = "speaking" /\ isSpeaker = "false"
       /\ players = <<MovePlayer(opt, stage, lastVoiceState, isSpeaker)>>
  /\ managerPlayers = [NoPlayers EXCEPT !["g1"] = 1]
  /\ nodes = [n \in NodeIds |-> ConnectedNode]
  /\ managerNodes = NodeIds
  /\ tasks = {}
  /\ sent = <<>>
  /\ emitted = {}
  /\ thrown = ""
  /\ last = [op |-> "init", id |-> 0]
  /\ resolve = NoCall
  /\ connectAll = NoConnectAll

MovePayloads ==
  {Payload("event", "g1", "TrackStartEvent", "", NullPos, FALSE),
   Payload("event", "g1", "TrackEndEvent", "FINISHED", NullPos, FALSE)}

NextMove ==
  \/ \E p \in DOMAIN players : Play(p, <<Track(1)>>, NoOptions, TRUE)
  \/ \E t \in tasks : Sent(t)
  \/ \E n \in NodeIds, payload \in MovePayloads : OnMessage(n, payload, TRUE)
  \/ \E t \in tasks : AdvanceSent(t, TRUE)
  \/ \E c \in Channels \cup {Null}, suppress \in BOOLEAN, ok \in BOOLEAN :
       VoiceStateUpdate("g1", c, suppress, ok)
  \/ \E t \in tasks : PauseSent(t)
  \/ \E t \in tasks : ResumeSent(t)
  \/ \E t \in tasks, fulfils \in BOOLEAN, permissions \in StagePermissions : MovePermissions(t, fulfils, permissions)
  \/ \E t \in tasks, fulfils \in BOOLEAN : MovePatch(t, fulfils)
  \/ \E t \in tasks : Disconnected(t)

SpecMove == InitMove /\ [][NextMove]_vars

\* ------------------------------------ the specification of the paused start
\* play() with and without the pause option on one connected Player, the
\* writes of the play frames succeeding or failing, and the track-start and
\* track-end events of the node.
PausedOptions == {NoOptions, [NoOptions EXCEPT !.pause = TRUE]}
PausedPayloads ==
  {Payload("event", "g1", "TrackStartEvent", "", NullPos, FALSE),
   Payload("event", "g1", "TrackEndEvent", "FINISHED", NullPos, FALSE),
   Payload("event", "g1", "TrackEndEvent", "REPLACED", NullPos, FALSE)}

NextPausedStart ==
  \/ \E p \in DOMAIN players, i \in TrackIds, opts \in PausedOptions, ok \in BOOLEAN :
       Play(p, <<Track(i)>>, opts, ok)
  \/ \E t \in tasks : Sent(t)
  \/ \E n \in NodeIds, payload \in PausedPayloads, ok \in BOOLEAN : OnMessage(n, payload, ok)
  \/ \E t \in tasks, ok \in BOOLEAN : AdvanceSent(t, ok)

SpecPausedStart == Init /\ [][NextPausedStart]_vars

\* ---------------------------------- the specification of the inbound frames
\* two connected Players of different guilds on one node, their play() calls,
\* and the node's playerUpdate and event frames for either guild; the event
\* frames name a track, which _handlePayload decodes before it applies them.
SomePosition == 1
FramePayloads ==
  {Payload("playerUpdate", g, "", "", SomePosition, FALSE) : g \in Guilds}
  \cup {Payload("event", g, "TrackStartEvent", "", NullPos, TRUE) : g \in Guilds}
  \cup {Payload("event", g, "TrackEndEvent", "FINISHED", NullPos, TRUE) : g \in Guilds}

InitFrames ==
  /\ players = <<ConnectedPlayer("g1", "vc1"), ConnectedPlayer("g2", "vc2")>>
  /\ managerPlayers = [NoPlayers EXCEPT !["g1"] = 1, !["g2"] = 2]
  /\ nodes = [n \in NodeIds |-> ConnectedNode]
  /\ managerNodes = NodeIds
  /\ tasks = {}
  /\ sent = <<>>
  /\ emitted = {}
  /\ thrown = ""
  /\ last = [op |-> "init", id |-> 0]
  /\ resolve = NoCall
  /\ connectAll = NoConnectAll

NextFrames ==
  \/ \E p \in DOMAIN players, ok \in BOOLEAN : Play(p, <<Track(1), Track(2)>>, NoOptions, ok)
  \/ \E t \in tasks : Sent(t)
  \/ \E n \in NodeIds, payload \in FramePayloads, ok \in BOOLEAN : OnMessage(n, payload, ok)
  \/ \E t \in tasks, fulfils \in BOOLEAN, ok \in BOOLEAN : Decoded(t, fulfils, ok)
  \/ \E t \in tasks, ok \in BOOLEAN : AdvanceSent(t, ok)

SpecFrames == InitFrames /\ [][NextFrames]_vars

\* ------------------------------------- the specification of node selection
\* A pool of connected nodes that receive stats, close and are destroyed,
\* while the manager creates Players, searches and decodes.
PoolSize == 3
PoolIds == 0..(PoolSize - 1)
\* stats frames: loads 0.1, 0.5 and 1 / 2 = 0.5
StatsFrames == {Stats(TRUE, 10, 1), Stats(TRUE, 50, 1), Stats(TRUE, 100, 2)}

InitPool ==
  /\ nodes = [n \in PoolIds |-> ConnectedNode]
  /\ managerNodes = PoolIds
  /\ players = <<>>
  /\ managerPlayers = NoPlayers
  /\ tasks = {}
  /\ sent = <<>>
  /\ emitted = {}
  /\ thrown = ""
  /\ last = [op |-> "init", id |-> 0]
  /\ resolve = NoCall
  /\ connectAll = NoConnectAll

NextPool ==
  \/ \E n \in PoolIds, stats \in StatsFrames : OnStats(n, stats)
  \/ \E n \in PoolIds, i \in 1..MaxSockets : WsClose(n, i, NormalClosure, "")
  \/ \E n \in PoolIds : NodeDestroy(n, TRUE)
  \/ CreatePlayer("g1", "vc1", DefaultPlayerOptions)
  \/ \E enabled \in BOOLEAN : Search(enabled)
  \/ \E t \in tasks, json \in BOOLEAN : SearchResponded(t, json)
  \/ DecodeTracks
  \/ \E t \in tasks, json \in BOOLEAN : DecodeResponded(t, json)

SpecPool == InitPool /\ [][NextPool]_vars

\* ------------------------------- the specification of the playback commands
\* One Player, as createPlayer has made it, through connect(), the voice state
\* update that connects it, and destroy, with every playback command called
\* in every state it passes through.
CommandLists == {<<Track(1)>>, <<TrackPartial(2)>>}
SeekPositions == {0 - 5, 0, 1500}
FiltersGiven == {Null, "{}", "timescale"}

CommandVolumes == {40, MaxVolume + 1}

InitCommands ==
  /\ players = <<NewPlayer("g1", "vc1", 0, DefaultPlayerOptions)>>
  /\ managerPlayers = [NoPlayers EXCEPT !["g1"] = 1]
  /\ nodes = [n \in NodeIds |-> ConnectedNode]
  /\ managerNodes = NodeIds
  /\ tasks = {}
  /\ sent = <<>>
  /\ emitted = {}
  /\ thrown = ""
  /\ last = [op |-> "init", id |-> 0]
  /\ resolve = NoCall
  /\ connectAll = NoConnectAll

NextCommands ==
  \/ \E p \in DOMAIN players : DestroyPlayer(p, TRUE)
  \/ \E p \in DOMAIN players : Connect(p)
  \/ \E p \in DOMAIN players : ConnectTimeout(p)
  \/ VoiceStateUpdate("g1", "vc1", FALSE, TRUE)
  \/ \E t \in tasks : ConnectChannel(t, TRUE)
  \/ \E t \in tasks : Disconnected(t)
  \/ \E p \in DOMAIN players, list \in CommandLists : Play(p, list, NoOptions, TRUE)
  \/ \E t \in tasks : Resolved(t, Track(2), TRUE)
  \/ \E t \in tasks : Sent(t)
  \/ \E p \in DOMAIN players : Skip(p, FALSE, NullPos, TRUE)
  \/ \E t \in tasks : SkipStopped(t, TRUE)
  \/ \E p \in DOMAIN players : Shuffle(p, TRUE)
  \/ \E t \in tasks : ShuffleStopped(t, TRUE)
  \/ \E p \in DOMAIN players, isNumber \in BOOLEAN, position \in SeekPositions : Seek(p, isNumber, position, TRUE)
  \/ \E t \in tasks : SeekSent(t)
  \/ \E p \in DOMAIN players : Pause(p, TRUE)
  \/ \E t \in tasks : PauseSent(t)
  \/ \E p \in DOMAIN players : Resume(p, TRUE)
  \/ \E t \in tasks : ResumeSent(t)
  \/ \E p \in DOMAIN players : Stop(p, TRUE)
  \/ \E t \in tasks : StopStopped(t)
  \/ \E p \in DOMAIN players, volume \in CommandVolumes : SetVolume(p, volume, TRUE)
  \/ \E t \in tasks : SetVolumeSent(t)
  \/ \E p \in DOMAIN players, filters \in FiltersGiven : SetFilters(p, filters, TRUE)
  \/ \E t \in tasks : SetFiltersSent(t)
  \/ \E t \in tasks : AdvanceResolved(t, Track(2), TRUE)
  \/ \E t \in tasks : AdvanceSent(t, TRUE)

SpecCommands == InitCommands /\ [][NextCommands]_vars

\* ------------------------------------------ the specification of Node.send
\* A node as in the specification of a Node's life, with send() called by the
\* application at any moment and its write succeeding or failing.
NextSend ==
  \/ \E n \in NodeIds : NodeConnect(n)
  \/ \E n \in NodeIds, i \in 1..MaxSockets : WsOpen(n, i)
  \/ \E n \in NodeIds, i \in 1..MaxSockets : WsError(n, i)
  \/ \E n \in NodeIds, i \in 1..MaxSockets, code \in CloseCodes : WsClose(n, i, code, "")
  \/ \E n \in NodeIds, i \in 1..MaxSockets : ConnectionTimeout(n, i)
  \/ \E n \in NodeIds : ReconnectTick(n, TRUE)
  \/ Tick
  \/ \E n \in NodeIds : NodeDestroy(n, TRUE)
  \/ \E n \in NodeIds, ok \in BOOLEAN : Send(n, ok)
  \/ \E t \in tasks : SendWritten(t)

SpecSend == InitNode /\ [][NextSend]_vars

\* ------------------------------------------------------------------ claims
\* C1: in every state in which a Player is CONNECTED, PAUSED or PLAYING, also
\* while a resolveTrack round trip is pending, a non-null queuePosition
\* denotes a queue entry that is a Track with an encoded handle, never a
\* TrackPartial, over play, skip, shuffle and the queue advance.
C1_IndexDenotesTrack ==
  \A p \in DOMAIN players :
    (players[p].state \in Active /\ players[p].queuePosition # NullPos)
      => IsTrack(currentTrack(players[p]))

\* C2: after any sequence of play, skip, shuffle, stop, clear(true|false) and
\* queue advance, a non-null queuePosition i satisfies 0 <= i < queue.length.
C2_IndexInRange ==
  \A p \in DOMAIN players :
    players[p].queuePosition # NullPos
      => (0 <= players[p].queuePosition /\ players[p].queuePosition < Len(players[p].queue))

\* C3: DESTROYED is terminal for a Player: no step (voice update, inbound
\* frame, completion of an async call that destroy started) takes a Player
\* whose state is DESTROYED to another state.
C3_DestroyedTerminal ==
  [][\A p \in DOMAIN players :
       players[p].state = "DESTROYED" => players'[p].state = "DESTROYED"]_vars

\* C4: a destroy() on a Player that is already DESTROYED raises no error,
\* delivers no event and leaves the manager's table of players unchanged.
C4_DestroyIdempotent ==
  [][\A p \in DOMAIN players :
       (players[p].state = "DESTROYED" /\ last'.op = "destroy" /\ last'.id = p)
         => (thrown' = "" /\ emitted' = {} /\ managerPlayers' = managerPlayers)]_vars

\* C5: at any time at most one Player that is not DESTROYED exists per guild,
\* and createPlayer for a guild that has a registered Player fails and leaves
\* that Player registered.
C5_OnePlayerPerGuild ==
  /\ \A p, q \in DOMAIN players :
       (p # q /\ players[p].guildId = players[q].guildId)
         => (players[p].state = "DESTROYED" \/ players[q].state = "DESTROYED")
  /\ (last.op = "createPlayer" /\ thrown = "A player already exists for that guild")
       => \E g \in Guilds : managerPlayers[g] # 0

\* C6: when the reconnect interval of a node with maxRetrys = N > 0 gives up
\* after N failed attempts, the node becomes DESTROYED and every Player bound
\* to the node is DESTROYED, the ones destroyed by this step notified with the
\* reason 'Attached node destroyed'.
C6_GiveUpDestroysAll ==
  [][\A n \in NodeIds :
       (last'.op = "reconnect_tick" /\ last'.id = n /\ nodes[n].maxRetrys > 0
          /\ nodes[n].reconnectAttempts >= nodes[n].maxRetrys)
         => /\ nodes'[n].state = "DESTROYED"
            /\ \A p \in DOMAIN players : players[p].node = n =>
                 /\ players'[p].state = "DESTROYED"
                 /\ players[p].state # "DESTROYED" =>
                      PlayerEvent(p, "DESTROYED", "Attached node destroyed") \in emitted']_vars

\* C7: when a connect() made by the reconnect interval succeeds and the node
\* returns from RECONNECTING to CONNECTED, its reconnectAttempts counter is 0
\* and its reconnect interval is cancelled.
C7_ReconnectResets ==
  [][\A n \in NodeIds :
       (/\ last'.op = "ws_open" /\ last'.id = n
        /\ nodes[n].state = "RECONNECTING" /\ nodes'[n].state = "CONNECTED"
        /\ \E i \in 1..MaxSockets :
             /\ nodes[n].sockets[i].counted /\ nodes[n].sockets[i].phase = "connecting"
             /\ nodes'[n].sockets[i].phase = "open")
         => (nodes'[n].reconnectAttempts = 0 /\ nodes'[n].reconnectTimeout = Unset)]_vars

\* C8: a Node is constructed only with connectionTimeout strictly less than
\* retryDelay, after the defaults are applied.
C8_TimeoutBelowDelay ==
  \A n \in NodeIds : nodes[n].connectionTimeout < nodes[n].retryDelay

\* C9: a Player leaves CONNECTING for CONNECTED only by a voice state update
\* that reports its own voice channel, and a voice state update that reports
\* another channel while CONNECTING destroys it with the reason 'Connected to
\* incorrect channel'.
C9_ConnectedByVoiceUpdate ==
  [][\A p \in DOMAIN players :
       /\ (players[p].state = "CONNECTING" /\ players'[p].state = "CONNECTED")
            => /\ last'.op = "voiceStateUpdate" /\ last'.id = p
               /\ players'[p].currentVoiceChannel = players[p].voiceChannelId
       /\ (players[p].state = "CONNECTING" /\ last'.op = "voiceStateUpdate" /\ last'.id = p
             /\ players'[p].currentVoiceChannel # players[p].voiceChannelId)
            => /\ players'[p].state = "DESTROYED"
               /\ PlayerEvent(p, "DESTROYED", "Connected to incorrect channel") \in emitted']_vars

\* C10: play(list) on a CONNECTED Player whose queue holds n entries appends
\* the entries, sends exactly one play frame, with the handle of the first
\* appended entry, and once the send completes sets queuePosition to n; a
\* skip() without index sends exactly a stop frame, and under loop 'off' then
\* sends exactly one play frame, for the entry after the current one, and
\* moves queuePosition to it.
C10_PlayThenSkip ==
  [][\A p \in DOMAIN players :
       LET pl == players[p]
           n == Len(pl.queue)
           done == tasks \ tasks'
       IN /\ (last'.op = "play" /\ last'.id = p /\ pl.state = "CONNECTED" /\ thrown' = ""
                /\ IsTrack(At(players'[p].queue, n)))
               => /\ Len(players'[p].queue) > n
                  /\ SubSeq(players'[p].queue, 1, n) = pl.queue
                  /\ Len(sent') = 1 /\ sent'[1].op = "play" /\ sent'[1].guildId = pl.guildId
                  /\ sent'[1].track = At(players'[p].queue, n).id
                  /\ \E t \in tasks' : t.p = p /\ t.pc = "sent" /\ t.pos = n
          /\ (last'.op = "sent" /\ last'.id = p /\ thrown' = "")
               => \E t \in done : t.pc = "sent" /\ players'[p].queuePosition = t.pos
          /\ (last'.op = "skip" /\ last'.id = p /\ thrown' = "")
               => sent' = <<Frame("stop", pl.guildId, 0, NoVolume, FALSE)>>
          /\ (last'.op = "skip_stopped" /\ last'.id = p /\ thrown' = "" /\ pl.loop = "off"
                /\ (\E t \in done : t.arg = "next")
                /\ pl.queuePosition # NullPos /\ IsTrack(At(pl.queue, pl.queuePosition + 1)))
               => /\ Len(sent') = 1 /\ sent'[1].op = "play" /\ sent'[1].guildId = pl.guildId
                  /\ sent'[1].track = At(pl.queue, pl.queuePosition + 1).id
                  /\ players'[p].queuePosition = pl.queuePosition + 1]_vars

\* the end of the scenario of C10: play([A, B]) on an empty queue, then skip(),
\* has sent the play frame of B and left queuePosition 1
C10_Witness ==
  /\ last.op = "skip_stopped" /\ thrown = ""
  /\ players[1].queue = <<Track(1), Track(2)>>
  /\ players[1].queuePosition = 1 /\ players[1].loop = "off"
  /\ sent = <<Frame("play", "g1", 2, NoVolume, FALSE)>>
  /\ \E t \in tasks : t.pc = "advance_sent"

\* C11: a setVolume(v) that succeeds stores v and sends it, and every play
\* frame sent afterwards without a volume option (by play, skip, shuffle or
\* the queue advance) carries the stored volume when it is not the default
\* 100; the stored volume changes only by setVolume or by a play with a volume
\* option.
C11_StoredVolumeInPlayFrames ==
  [][\A p \in DOMAIN players :
       LET pl == players[p]
           explicit == \E t \in tasks' \ tasks : t.p = p /\ t.pc = "sent" /\ t.opts.volume # NoVolume
       IN /\ (last'.op = "setVolume" /\ last'.id = p /\ thrown' = "")
               => sent' = <<Frame("volume", pl.guildId, 0, players'[p].volume, FALSE)>>
          /\ (~explicit /\ pl.volume # DefaultVolume)
               => \A i \in 1..Len(sent') :
                    (sent'[i].op = "play" /\ sent'[i].guildId = pl.guildId) => sent'[i].volume = pl.volume
          /\ (last'.op # "setVolume" /\ ~explicit) => players'[p].volume = pl.volume]_vars

\* after setVolume(250), a play() without options has sent a play frame with
\* volume 250
C11_Witness ==
  /\ last.op = "play" /\ thrown = ""
  /\ sent = <<Frame("play", "g1", 1, 250, FALSE)>>
  /\ \E t \in tasks : t.pc = "sent" /\ t.opts = NoOptions
\* a TrackEndEvent with reason FINISHED has just been handled by Player p
NaturalEnd(p) ==
  /\ last'.op = "message"
  /\ PlayerEvent(p, "TRACK_END", "FINISHED") \in emitted'

C13_QueueLoopWraps ==
  [][\A p \in DOMAIN players :
       LET pl == players[p]
           first == At(pl.queue, 0)
       IN /\ (NaturalEnd(p) /\ pl.loop = "queue" /\ Len(pl.queue) > 0
                /\ pl.queuePosition = Len(pl.queue) - 1)
               => /\ players'[p].queuePosition = 0
                  /\ IsTrack(first) => /\ Len(sent') = 1 /\ sent'[1].op = "play"
                                       /\ sent'[1].guildId = pl.guildId /\ sent'[1].track = first.id
                  /\ first.kind = "TrackPartial"
                       => /\ sent' = <<>>
                          /\ \E t \in tasks' : t.p = p /\ t.pc = "advance_resolve" /\ t.pos = 0
          /\ (last'.op = "advance_resolved" /\ last'.id = p /\ thrown' = ""
                /\ pl.queuePosition = 0 /\ IsTrack(At(players'[p].queue, 0)))
               => /\ players'[p].queuePosition = 0
                  /\ Len(sent') = 1 /\ sent'[1].op = "play"
                  /\ sent'[1].track = At(players'[p].queue, 0).id]_vars

\* the TrackEndEvent of the last of two entries under loop 'queue' has set
\* queuePosition to 0 and sent the play frame of the first entry
C13_Witness ==
  /\ last.op = "message" /\ PlayerEvent(1, "TRACK_END", "FINISHED") \in emitted
  /\ players[1].loop = "queue" /\ players[1].queue = <<Track(1), Track(2)>>
  /\ players[1].queuePosition = 0
  /\ sent = <<Frame("play", "g1", 1, NoVolume, FALSE)>>

\* C14: with loop 'off', the queue advance from the last index sets
\* queuePosition to null and sends no frame.
C14_OffLoopExhausts ==
  [][\A p \in DOMAIN players :
       LET pl == players[p]
       IN (NaturalEnd(p) /\ pl.loop = "off" /\ Len(pl.queue) > 0
             /\ pl.queuePosition = Len(pl.queue) - 1)
            => /\ players'[p].queuePosition = NullPos
               /\ sent' = <<>>
               /\ tasks' = tasks]_vars

\* the TrackEndEvent of the last of two entries under loop 'off' has cleared
\* queuePosition and sent nothing
C14_Witness ==
  /\ last.op = "message" /\ PlayerEvent(1, "TRACK_END", "FINISHED") \in emitted
  /\ players[1].loop = "off" /\ players[1].queue = <<Track(1), Track(2)>>
  /\ players[1].queuePosition = NullPos
  /\ sent = <<>> /\ tasks = {}
\* two strings are equal up to the case of their letters
EqualsIgnoreCase(a, b) ==
  Len(a) = Len(b) /\ \A i \in 1..Len(a) : ToUpperCase(a[i]) = ToUpperCase(b[i])
\* the candidate's author is the hint's author, or the hint's author followed
\* by ' - Topic'
AuthorMatches(track, t) ==
  \/ EqualsIgnoreCase(t.author, track.author)
  \/ EqualsIgnoreCase(t.author, track.author \o TopicSuffix)
\* the positions of the Tracks of a search result
TrackPositions(search) == {i \in 1..Len(search.tracks) : search.tracks[i].kind = "Track"}
\* the smallest of a non-empty set of positions
First(positions) == CHOOSE i \in positions : \A j \in positions : i <= j
\* the search of the resolveTrack call has fulfilled and resolveTrack has ended
Settled == resolve.pc \in {"returned", "threw"} /\ resolve.search.loadType # "none"

\* C15 as stated: the duration-proximity candidates are those whose duration
\* lies within [hint - 2000, hint + 200].  resolveTrack fails when the result
\* is no SEARCH_RESULT or holds no Track; else it returns the first candidate
\* whose author matches the hint's, else the first duration-proximity
\* candidate, else the first candidate.
C15_ResolvePriority ==
  Settled =>
    LET track == resolve.track
        search == resolve.search
        all == TrackPositions(search)
        byAuthor == {i \in all : track.author # NoString /\ AuthorMatches(track, search.tracks[i])}
        byDuration == {i \in all : /\ track.length # Unset
                                   /\ search.tracks[i].length >= track.length - 2000
                                   /\ search.tracks[i].length <= track.length + 200}
    IN IF search.loadType # "SEARCH_RESULT" \/ all = {} THEN resolve.pc = "threw"
       ELSE /\ resolve.pc = "returned"
            /\ resolve.value = search.tracks[First(IF byAuthor # {} THEN byAuthor
                                                   ELSE IF byDuration # {} THEN byDuration ELSE all)]

\* C15 amended: a duration of 0 is no duration.  The duration-proximity
\* candidates are those with a duration other than 0 within [hint - 2000,
\* hint + 200] of a hint other than 0; with that, resolveTrack fails when the
\* result is no SEARCH_RESULT or holds no Track, else returns the first
\* candidate whose author matches the hint's (also when a duration-proximity
\* candidate comes earlier), else the first duration-proximity candidate, else
\* the first candidate.
C15_ResolvePriorityKnownDurations ==
  Settled =>
    LET track == resolve.track
        search == resolve.search
        all == TrackPositions(search)
        byAuthor == {i \in all : track.author # NoString /\ AuthorMatches(track, search.tracks[i])}
        byDuration == {i \in all : /\ track.length # Unset /\ track.length # 0
                                   /\ search.tracks[i].length # 0
                                   /\ search.tracks[i].length >= track.length - 2000
                                   /\ search.tracks[i].length <= track.length + 200}
    IN IF search.loadType # "SEARCH_RESULT" \/ all = {}
         THEN resolve.pc = "threw" /\ resolve.threw = "No results found"
       ELSE /\ resolve.pc = "returned"
            /\ resolve.value = search.tracks[First(IF byAuthor # {} THEN byAuthor
                                                   ELSE IF byDuration # {} THEN byDuration ELSE all)]

\* resolveTrack with author 'Abba' and length 3000 has returned the third
\* candidate, 'ABBA - TOPIC', although the second one has a duration in range
C15_Witness ==
  /\ resolve.pc = "returned"
  /\ resolve.track = Hint(Abba, 3000)
  /\ resolve.search = [loadType |-> "SEARCH_RESULT",
                       tracks |-> <<Candidate(Queen, 3201), Candidate(Queen, 3200), Candidate(ABBATOPIC, 0)>>]
  /\ resolve.value = Candidate(ABBATOPIC, 0)
\* C16: after destroy() the Player no longer listens to its node: a frame the
\* node delivers for the guild of a DESTROYED Player changes none of that
\* Player's fields and sends no frame.
C16_DestroyedIgnoresFrames ==
  [][\A p \in DOMAIN players :
       (players[p].state = "DESTROYED" /\ last'.op \in {"message", "decoded"})
         => (players'[p] = players[p] /\ sent' = <<>>)]_vars
\* C17: when Node.destroy() has run, the node is DESTROYED and out of the
\* manager's nodes, every Player that was attached to it is DESTROYED, and no
\* Player left in the manager's table is attached to it.
C17_NodeDestroyTakesPlayers ==
  [][\A n \in NodeIds :
       (nodes[n].state # "DESTROYED" /\ nodes'[n].state = "DESTROYED")
         => /\ n \notin managerNodes'
            /\ \A p \in DOMAIN players : players[p].node = n => players'[p].state = "DESTROYED"
            /\ \A g \in Guilds : managerPlayers'[g] # 0 => players'[managerPlayers'[g]].node # n]_vars
\* C18: DESTROYED is terminal for a Node: no socket event, no settling
\* connect(), no tick of the reconnect interval, of the connectNodes interval
\* or of a connection timeout takes a DESTROYED Node to another state, and
\* connect() on it throws.
C18_NodeDestroyedTerminal ==
  [][\A n \in NodeIds :
       nodes[n].state = "DESTROYED"
         => /\ nodes'[n].state = "DESTROYED"
            /\ (last'.op = "node_connect" /\ last'.id = n)
                 => thrown' = "Cannot initiate a connection when the node isn't in a disconnected or reconnecting state"]_vars

\* the interval of connectNodes has called connect() on the DESTROYED node and
\* counted the failure
C18_Witness ==
  /\ nodes[0].state = "DESTROYED"
  /\ last = [op |-> "connect_tick", id |-> 0]
  /\ connectAll[0].attempts > 0
\* the node that createPlayer bound the new Player to, or that search or
\* decodeTracks sent its request to, in the step just taken
Selected(n) ==
  \/ /\ last'.op = "createPlayer" /\ Len(players') > Len(players)
     /\ players'[Len(players')].node = n
  \/ /\ last'.op \in {"search", "decodeTracks"}
     /\ \E t \in tasks' \ tasks : t.pos = n
\* the stats of a node give a load: cpu is there and cores is not 0
HasLoad(n) == nodes[n].stats.cpu /\ nodes[n].stats.cores > 0
InPoolConnected(n) == n \in managerNodes /\ nodes[n].state = "CONNECTED"

\* C19: the node selected by createPlayer, search and decodeTracks is a
\* CONNECTED node of the pool; no CONNECTED node of the pool has a smaller
\* systemLoad / cores, and none with the same load comes earlier in the pool;
\* when no node is CONNECTED the three fail with their error, and createPlayer
\* registers no Player.
C19_LeastLoadSelection ==
  [][/\ \A n \in DOMAIN nodes :
          Selected(n)
            => /\ InPoolConnected(n)
               /\ \A m \in DOMAIN nodes :
                    (InPoolConnected(m) /\ HasLoad(m) /\ HasLoad(n))
                      => LET lm == nodes[m].stats.systemLoad * nodes[n].stats.cores
                             ln == nodes[n].stats.systemLoad * nodes[m].stats.cores
                         IN lm >= ln /\ (lm = ln => n <= m)
     /\ (~(\E n \in DOMAIN nodes : InPoolConnected(n))
           /\ last'.op \in {"createPlayer", "search", "decodeTracks"})
          => /\ thrown' # ""
             /\ players' = players /\ managerPlayers' = managerPlayers /\ tasks' = tasks]_vars
\* C20: play() on a PAUSED or PLAYING Player appends its entries at the end of
\* the queue and does nothing else: it sends no frame, throws nothing, starts
\* no asynchronous work, and leaves the queue position, the state, the entries
\* already queued, and every other Player and node as they were.
C20_PlayWhileActiveOnlyQueues ==
  [][\A p \in DOMAIN players :
       (last'.op = "play" /\ last'.id = p /\ players[p].state \in {"PAUSED", "PLAYING"})
         => /\ \E list \in PlayLists : players' = [players EXCEPT ![p].queue = @ \o list]
            /\ sent' = <<>> /\ emitted' = {} /\ thrown' = ""
            /\ tasks' = tasks
            /\ managerPlayers' = managerPlayers /\ nodes' = nodes]_vars

\* play() has queued a second entry behind the first on a PAUSED Player
C20_Witness ==
  \E p \in DOMAIN players :
    /\ last.op = "play" /\ last.id = p
    /\ players[p].state = "PAUSED"
    /\ Len(players[p].queue) = 2 /\ players[p].queuePosition = 0
    /\ tasks = {} /\ sent = <<>> /\ thrown = ""
\* the playback commands that check the state of the Player on entry
Commands == {"play", "skip", "shuffle", "seek", "pause", "resume", "stop", "setVolume", "setFilters"}

\* C21: play, skip, shuffle, seek, pause, resume, stop, setVolume and
\* setFilters called on a Player that is DISCONNECTED, CONNECTING or DESTROYED
\* throw, send no frame, emit nothing, start no asynchronous work and leave
\* every field of every Player (queue, queuePosition, state, volume, filters)
\* and the nodes as they were.
C21_InactiveCommandsRejected ==
  [][\A p \in DOMAIN players :
       (last'.op \in Commands /\ last'.id = p
          /\ players[p].state \in {"DISCONNECTED", "CONNECTING", "DESTROYED"})
         => /\ thrown' # "" /\ sent' = <<>> /\ emitted' = {}
            /\ players' = players /\ tasks' = tasks
            /\ managerPlayers' = managerPlayers /\ nodes' = nodes]_vars

\* setFilters has been rejected on a DESTROYED Player
C21_Witness ==
  \E p \in DOMAIN players :
    /\ last = [op |-> "setFilters", id |-> p]
    /\ players[p].state = "DESTROYED"
    /\ thrown = NotActiveError("set filters")
\* C22: Node.send on a node that is not CONNECTED throws its error, writes no
\* frame and starts nothing; on a CONNECTED node no step of send (the call,
\* the callback of the write, whether the write failed or not) changes the
\* state of the node, and a failed write rejects the call.
C22_SendNeedsConnection ==
  [][\A n \in DOMAIN nodes :
       /\ (last'.op = "send" /\ last'.id = n /\ nodes[n].state # "CONNECTED")
            => /\ thrown' = "Cannot send payloads before a connection is established"
               /\ sent' = <<>> /\ tasks' = tasks /\ nodes' = nodes
       /\ (last'.op = "send" /\ last'.id = n /\ nodes[n].state = "CONNECTED")
            => thrown' = "" /\ nodes' = nodes
       /\ (last'.op = "send_written" /\ last'.id = n)
            => /\ nodes' = nodes
               /\ \E t \in tasks \ tasks' : t.pc = "node_send" /\ (thrown' # "" <=> ~t.ok)]_vars

\* the write of a send() on a CONNECTED node has failed: the call is rejected
\* and the node is still CONNECTED
C22_Witness ==
  \E n \in DOMAIN nodes :
    /\ last = [op |-> "send_written", id |-> n]
    /\ thrown = "write error"
    /\ NodeEvent(n, "ERROR", "write error") \in emitted
    /\ nodes[n].state = "CONNECTED"
\* the connect() that made a socket of node n has failed in the step just
\* taken: the socket's error event reached the once('error') listener, or the
\* connection timeout fired
ConnectFailed(n) ==
  \/ last'.op = "connection_timeout" /\ last'.id = n
  \/ /\ last'.op = "ws_error" /\ last'.id = n
     /\ \E i \in 1..MaxSockets : nodes[n].sockets[i].listening = "once" /\ nodes'[n].sockets[i].listening # "once"

\* C23: when a connect() fails by a socket error or by its connection timeout,
\* the call rejects, and a node that was CONNECTING (the attempt was started
\* from DISCONNECTED) is DISCONNECTED afterwards, while a node that was
\* RECONNECTING stays RECONNECTING.
C23_FailedConnectDisconnects ==
  [][\A n \in DOMAIN nodes :
       ConnectFailed(n)
         => /\ thrown' # ""
            /\ nodes[n].state = "CONNECTING" => nodes'[n].state = "DISCONNECTED"
            /\ nodes[n].state = "RECONNECTING" => nodes'[n].state = "RECONNECTING"]_vars

\* the socket of a CONNECTED node n has closed in the step just taken
ClosedWhileConnected(n) ==
  last'.op = "ws_close" /\ last'.id = n /\ nodes[n].state = "CONNECTED"
\* the step just taken has started a connection attempt of node n
AttemptStarted(n) ==
  \E i \in 1..MaxSockets :
    /\ nodes'[n].ws = i /\ nodes'[n].sockets[i] # nodes[n].sockets[i]
    /\ nodes'[n].sockets[i].phase = "connecting" /\ nodes'[n].sockets[i].promise = "pending"
    /\ nodes'[n].sockets[i].timer = nodes[n].connectionTimeout
\* the interval of reconnect() fires for the first time since the socket closed
FirstReconnectTick(n) ==
  /\ last'.op = "reconnect_tick" /\ last'.id = n
  /\ nodes[n].ws # 0 /\ nodes[n].sockets[nodes[n].ws].phase = "closed"

\* C24: when the socket of a CONNECTED node closes with a code other than 1000
\* the node becomes RECONNECTING and its interval is armed with retryDelay;
\* the first tick of the interval starts a connection attempt, and so does
\* every later tick until maxRetrys attempts have failed, the interval staying
\* at retryDelay; when the socket closes with code 1000 the node becomes
\* DISCONNECTED with no interval armed, and no tick of the interval follows
\* while it is DISCONNECTED.
C24_AbnormalCloseReconnects ==
  [][\A n \in DOMAIN nodes :
       /\ (ClosedWhileConnected(n) /\ nodes'[n].state # "DISCONNECTED")
            => /\ nodes'[n].state = "RECONNECTING"
               /\ nodes'[n].reconnectTimeout = nodes[n].retryDelay
       /\ (FirstReconnectTick(n) /\ nodes[n].maxRetrys # 0)
            => AttemptStarted(n)
       /\ (last'.op = "reconnect_tick" /\ last'.id = n
             /\ (nodes[n].maxRetrys = 0 \/ nodes[n].reconnectAttempts < nodes[n].maxRetrys))
            => /\ AttemptStarted(n)
               /\ nodes'[n].state = "RECONNECTING"
               /\ nodes'[n].reconnectTimeout = nodes[n].retryDelay
       /\ (ClosedWhileConnected(n) /\ nodes'[n].state = "DISCONNECTED")
            => /\ nodes'[n].reconnectTimeout = Unset
               /\ ~AttemptStarted(n)
       /\ (last'.op = "reconnect_tick" /\ last'.id = n) => nodes[n].state # "DISCONNECTED"]_vars
\* the connection attempts of node n whose connect() has not settled
PendingAttempts(n) == {i \in 1..MaxSockets : nodes[n].sockets[i].promise = "pending"}

\* C25: for every node the constructor accepts, at most one connection
\* attempt of the node is pending in every state, and a tick of the reconnect
\* interval or of the interval of connectNodes fires only when no connection
\* attempt of the node is pending.
C25_NoOverlappingAttempts ==
  /\ [](\A n \in DOMAIN nodes : Cardinality(PendingAttempts(n)) <= 1)
  /\ [][\A n \in DOMAIN nodes :
          (last'.op \in {"reconnect_tick", "connect_tick"} /\ last'.id = n)
            => PendingAttempts(n) = {}]_vars

\* the promise that connectNodes made for node n is settled
OutcomeSettled(n) == connectAll[n].promise \in {"resolved", "rejected"}
\* the step is a handler of node n: a tick of its connectNodes interval or an
\* event of one of its sockets
HandlerOf(n) ==
  last'.op \in {"connect_tick", "ws_open", "ws_error", "connection_timeout"} /\ last'.id = n
\* the connect() that tryConnect awaits is fulfilled in this step
TryConnectFulfilled(n) ==
  \E i \in 1..MaxSockets :
    /\ nodes[n].sockets[i].tryConnect /\ nodes[n].sockets[i].promise = "pending"
    /\ last'.op = "ws_open" /\ last'.id = n /\ nodes'[n].state = "CONNECTED"
    /\ nodes[n].state # "CONNECTED"

\* C26 (outcomes): connectNodes makes one promise per configured node, a
\* settled promise keeps its outcome, and the handlers of one node leave the
\* promise and the attempt count of every other node alone; a node whose
\* attempt connects while its promise is pending is reported resolved,
\* whatever the promise of the other node is.
C26_OutcomesPerNode ==
  /\ [](\A n, m \in DOMAIN nodes : connectAll[n].promise = "none" <=> connectAll[m].promise = "none")
  /\ [][\A n \in DOMAIN nodes :
          /\ OutcomeSettled(n) => connectAll'[n].promise = connectAll[n].promise
          /\ HandlerOf(n) => \A m \in DOMAIN nodes \ {n} : connectAll'[m] = connectAll[m]
          /\ (TryConnectFulfilled(n) /\ connectAll[n].promise = "pending")
               => connectAll'[n].promise = "resolved"]_vars

\* C26: the outcomes of connectNodes as above, and moreover a node that is
\* reported rejected is not connected and no connection attempt is started
\* for it once its promise is rejected.
C26_ConnectAllOutcomes ==
  /\ C26_OutcomesPerNode
  /\ [](\A n \in DOMAIN nodes : connectAll[n].promise = "rejected" => nodes[n].state # "CONNECTED")
  /\ [][\A n \in DOMAIN nodes :
          connectAll'[n].promise = "rejected" => ~AttemptStarted(n)]_vars

\* a timer of node n is armed: the timeout of a connection attempt, the
\* reconnect interval or the interval of connectNodes
NodeTimerArmed(n) ==
  \/ nodes[n].reconnectTimeout # Unset
  \/ connectAll[n].interval # Unset
  \/ \E i \in 1..MaxSockets : nodes[n].sockets[i].timer # Unset
\* the step is the callback of a timer of node n
NodeTimerFires(n) ==
  last'.op \in {"connection_timeout", "reconnect_tick", "connect_tick"} /\ last'.id = n
\* the step is the callback of the timeout of connect() of Player p
PlayerTimerFires(p) == last'.op = "connect_timeout" /\ last'.id = p

\* C27: a Destroyed node has no armed connection timeout, reconnect interval
\* or connectNodes interval, a Destroyed Player has no armed connect timeout,
\* and no callback of these timers runs for a node or a Player that is
\* Destroyed.
C27_DestroyCancelsTimers ==
  /\ [](\A n \in DOMAIN nodes : nodes[n].state = "DESTROYED" => ~NodeTimerArmed(n))
  /\ [](\A p \in DOMAIN players : players[p].state = "DESTROYED" => ~players[p].connectTimer)
  /\ [][/\ \A n \in DOMAIN nodes : nodes[n].state = "DESTROYED" => ~NodeTimerFires(n)
        /\ \A p \in DOMAIN players : players[p].state = "DESTROYED" => ~PlayerTimerFires(p)]_vars

\* the resolution that _advanceQueue of Player p awaited ends in this step and
\* leaves the entry at the new index unresolved
AdvanceResolutionFailed(p) ==
  /\ last'.op = "advance_resolved" /\ last'.id = p
  /\ \E t \in tasks :
       /\ t.pc = "advance_resolve" /\ t.p = p /\ ~t.stale
       /\ players[p].queuePosition = t.pos
       /\ At(players'[p].queue, t.pos).kind = "TrackPartial"
\* the queue advance of Player p went on: it awaits the next entry or its play
\* frame, or it ran off the queue and cleared the index
AdvanceWentOn(p) ==
  \/ players'[p].queuePosition = NullPos
  \/ \E t \in tasks' : t.p = p /\ t.pc \in {"advance_resolve", "advance_sent"}

\* C28: when the resolution of the unresolved entry at the new index fails
\* during a queue advance, the step emits an ERROR event of the Player and
\* the advance goes on to the next entry; it does not end with the index on
\* the unresolved entry.
C28_FailedResolutionSkipsEntry ==
  [][\A p \in DOMAIN players :
       AdvanceResolutionFailed(p)
         => /\ \E e \in emitted' : e.kind = "player" /\ e.id = p /\ e.type = "ERROR"
            /\ AdvanceWentOn(p)]_vars

\* the step runs _advanceQueue of Player p: after the stop of skip() or of a
\* stuck track, after a track ended, or as the continuation of an advance
\* that awaited a resolution or a play frame that failed
AdvanceRuns(p) ==
  \/ /\ last'.op \in {"message", "decoded"}
     /\ PlayerEvent(p, "TRACK_END", "FINISHED") \in emitted'
  \/ /\ last'.id = p
     /\ \E t \in tasks :
          /\ t.p = p
          /\ \/ last'.op = "skip_stopped" /\ t.pc = "skip_stopped" /\ t.arg = "next" /\ t.ok
             \/ last'.op = "stuck_stopped" /\ t.pc = "stuck_stopped"
             \/ last'.op = "advance_resolved" /\ t.pc = "advance_resolve"
             \/ last'.op = "advance_sent" /\ t.pc = "advance_sent" /\ ~t.ok

\* C29: every run of the queue advance comes to an end within the entries of
\* the queue, whatever the entries and the loop mode are: it ends with the
\* play frame of an entry issued, with the resolution of an entry awaited, or
\* with the queue index cleared, and never by exhausting the call stack.
C29_AdvanceTerminates ==
  [][\A p \in DOMAIN players :
       AdvanceRuns(p)
         => /\ AdvanceWentOn(p)
            /\ thrown' # "RangeError: Maximum call stack size exceeded"]_vars

\* the step delivers the voice state update (newChannel, suppress) to the
\* Player registered for the guild, and _handleMove runs to its end in it
VoiceUpdateHandled(guildId, newChannel, suppress, ok) ==
  /\ VoiceStateUpdate(guildId, newChannel, suppress, ok)
  /\ ~\E t \in tasks' : t.p = managerPlayers[guildId] /\ t.pc = "move_permissions"

\* C30: whatever branch _handleMove takes, the destroying ones included, the
\* Player ends the handling of a voice state update with currentVoiceChannel
\* equal to the channel of that update and lastVoiceState equal to its data:
\* the record always shows the update delivered last.
C30_VoiceUpdateRecorded ==
  [][\A guildId \in Guilds, newChannel \in Channels \cup {Null}, suppress \in BOOLEAN, ok \in BOOLEAN :
       VoiceUpdateHandled(guildId, newChannel, suppress, ok)
         => /\ players'[managerPlayers[guildId]].currentVoiceChannel = newChannel
            /\ players'[managerPlayers[guildId]].lastVoiceState =
                 (IF suppress THEN "suppressed" ELSE "speaking")]_vars

\* the DESTROYED event of the move policy
MovedOutEvent(p) == PlayerEvent(p, "DESTROYED", "Player was moved out of the voice channel")

\* C31: with moveBehavior 'destroy', a voice state update delivered to a
\* Player that is CONNECTED, PAUSED or PLAYING destroys it, with the reason of
\* the move policy, when it reports another channel than the bound one or no
\* channel; an update that reports the bound channel does not destroy it.
C31_MoveDestroys ==
  [][\A guildId \in Guilds, newChannel \in Channels \cup {Null}, suppress \in BOOLEAN, ok \in BOOLEAN :
       LET p == managerPlayers[guildId] IN
       (/\ VoiceStateUpdate(guildId, newChannel, suppress, ok)
        /\ players[p].state \in Active
        /\ players[p].moveBehavior = "destroy")
         => IF newChannel = players[p].voiceChannelId
              THEN players'[p].state # "DESTROYED" /\ MovedOutEvent(p) \notin emitted'
              ELSE players'[p].state = "DESTROYED" /\ MovedOutEvent(p) \in emitted'
                   /\ managerPlayers'[guildId] = 0]_vars
\* a connected Player was moved to another channel and is destroyed, and
\* before that an update for the bound channel left it connected
C31_Witness ==
  \E p \in DOMAIN players :
    /\ last.op = "voiceStateUpdate" /\ last.id = p
    /\ players[p].state = "DESTROYED" /\ MovedOutEvent(p) \in emitted
    /\ players[p].moveBehavior = "destroy"
    /\ players[p].currentVoiceChannel = players[p].voiceChannelId

\* the frame of pause() and of resume()
PauseFrame(p, pause) == Frame("pause", players[p].guildId, 0, NoVolume, pause)
InSent(frame) == \E i \in DOMAIN sent' : sent'[i] = frame
\* the voice state update of this step moves Player p, under moveBehavior
\* 'pause', out of its bound channel while PLAYING
MovedOutPlaying(p, newChannel) ==
  /\ players[p].moveBehavior = "pause" /\ players[p].state = "PLAYING"
  /\ players[p].currentVoiceChannel = players[p].voiceChannelId
  /\ newChannel # players[p].voiceChannelId
\* ... or back into its bound channel while PAUSED
MovedBackPaused(p, newChannel) ==
  /\ players[p].moveBehavior = "pause" /\ players[p].state = "PAUSED"
  /\ players[p].currentVoiceChannel # players[p].voiceChannelId
  /\ newChannel = players[p].voiceChannelId
\* the pause() or resume() that a move started completes in this step: the
\* write of its frame has succeeded (written) or failed
MovePauseCompletes(p, written) ==
  \E t \in tasks : /\ t.p = p /\ t.pc = "pause_sent" /\ t.ok = written /\ last'.op = "pause_sent"
                   /\ t.reason = "Moved out of the voice channel" /\ t \notin tasks'
MoveResumeCompletes(p, written) ==
  \E t \in tasks : /\ t.p = p /\ t.pc = "resume_sent" /\ t.ok = written /\ last'.op = "resume_sent"
                   /\ t.reason = "Moved into the voice channel" /\ t \notin tasks'
\* with moveBehavior 'pause', the update that moves a PLAYING Player out of
\* its bound channel hands a pause frame to the node's socket, the one that
\* moves a PAUSED Player back a resume frame, and no update destroys the
\* Player with the reason of the move policy
MoveSendsFrames ==
  /\ \A c \in Channels \cup {Null}, suppress \in BOOLEAN, ok \in BOOLEAN :
       LET p == managerPlayers["g1"] IN
       VoiceStateUpdate("g1", c, suppress, ok)
         => /\ MovedOutPlaying(p, c) => InSent(PauseFrame(p, TRUE))
            /\ MovedBackPaused(p, c) => InSent(PauseFrame(p, FALSE))
  /\ \A p \in DOMAIN players : players[p].moveBehavior = "pause" => MovedOutEvent(p) \notin emitted'

OnStage(p) ==
  /\ players[p].state \in Active
  /\ players[p].isStage = "true" /\ players[p].becomeSpeaker /\ players[p].lastVoiceState # Null
AudienceEvent(p) == PlayerEvent(p, "DESTROYED", "Player was moved to the audience")
\* what the stage branch of _handleMove does with the update (newChannel,
\* suppress) for Player p
StageBranch(p, suppress) ==
  LET wasSuppressed == players[p].lastVoiceState = "suppressed"
      becomesSuppressed == ~wasSuppressed /\ suppress
      becomesSpeaker == wasSuppressed /\ ~suppress
  IN /\ players'[p].isSpeaker = (IF suppress THEN "false" ELSE "true")
     /\ (players[p].stageMoveBehavior = "destroy" /\ becomesSuppressed)
          => players'[p].state = "DESTROYED" /\ AudienceEvent(p) \in emitted'
     /\ (players[p].stageMoveBehavior = "pause" /\ becomesSuppressed /\ players[p].state = "PLAYING")
          => /\ InSent(PauseFrame(p, TRUE))
             /\ \E t \in tasks' : t.p = p /\ t.pc = "pause_sent" /\ t.reason = "Moved to the audience"
             /\ \E t \in tasks' : t.p = p /\ t.pc = "move_permissions"
     /\ (players[p].stageMoveBehavior = "pause" /\ becomesSpeaker /\ players[p].state = "PAUSED")
          => /\ InSent(PauseFrame(p, FALSE))
             /\ \E t \in tasks' : t.p = p /\ t.pc = "resume_sent" /\ t.reason = "Became a speaker"
\* the pause() or resume() of the stage policy completes in this step
StagePauseCompletes(p, written) ==
  \E t \in tasks : /\ t.p = p /\ t.pc = "pause_sent" /\ t.ok = written /\ last'.op = "pause_sent"
                   /\ t.reason = "Moved to the audience" /\ t \notin tasks'
StageResumeCompletes(p, written) ==
  \E t \in tasks : /\ t.p = p /\ t.pc = "resume_sent" /\ t.ok = written /\ last'.op = "resume_sent"
                   /\ t.reason = "Became a speaker" /\ t \notin tasks'
\* the negotiation goes on after the permissions are known: a PATCH is
\* awaited when the bot may request to speak or become a speaker
NegotiationGoesOn ==
  \A t \in tasks :
    (t.pc = "move_permissions" /\ last'.op = "move_permissions" /\ thrown' = "" /\ t \notin tasks')
      => \/ \E u \in tasks' : u.p = t.p /\ u.pc = "move_patch"
         \/ players'[t.p].lastVoiceState = "suppressed"

TrackEndApplied(p, reason, ok) ==
  LET ended == [World EXCEPT !.players[p].position = NullPos, !.players[p].state = "CONNECTED"]
      advanced == AdvanceQueue(ended, p, ok, StackDepth)
  IN /\ players'[p].position = NullPos
     /\ players'[p].state = "CONNECTED"
     /\ PlayerEvent(p, "TRACK_END", reason) \in emitted'
     /\ IF reason \in {"STOPPED", "REPLACED"}
          THEN /\ players'[p].queuePosition = players[p].queuePosition
               /\ sent' = <<>>
               /\ ~\E t \in tasks' \ tasks : t.pc \in {"advance_resolve", "advance_sent"}
          ELSE /\ players'[p].queuePosition = advanced.players[p].queuePosition
               /\ sent' = advanced.sent

\* C34: a TrackEndEvent frame for the guild of a Player, whether it names the
\* track (the handler then decodes it first) or not, leaves the Player
\* without position and CONNECTED, and the queue advance runs if and only if
\* the reason is neither STOPPED nor REPLACED.
C34_TrackEnd ==
  [][/\ \A n \in DOMAIN nodes, reason \in {"FINISHED", "STOPPED", "REPLACED"} :
          \A p \in DOMAIN players :
            (/\ players[p].node = n /\ managerPlayers[players[p].guildId] = p
             /\ \E ok \in BOOLEAN :
                  OnMessage(n, Payload("event", players[p].guildId, "TrackEndEvent", reason, NullPos, FALSE), ok))
              => \E ok \in BOOLEAN : TrackEndApplied(p, reason, ok)
     /\ \A t \in tasks :
          (t.pc = "decode" /\ t.arg = "TrackEndEvent" /\ last'.op = "decoded" /\ t \notin tasks')
            => \E ok \in BOOLEAN : TrackEndApplied(t.p, t.reason, ok)]_vars

\* the play frames of Player p's guild handed to the socket in this step
PlayFramesSent(p) ==
  SelectSeq(sent', LAMBDA f : f.op = "play" /\ f.guildId = players[p].guildId)
LastPlayFrame(p) == PlayFramesSent(p)[Len(PlayFramesSent(p))]
\* the write of the play frame handed over in this step succeeds / fails
PlayWritten(p, written) ==
  /\ PlayFramesSent(p) # <<>>
  /\ \E t \in tasks' : t.p = p /\ t.pc \in {"sent", "advance_sent"} /\ t.ok = written
\* Player p remembers a paused start: its next track start leaves it PAUSED
RemembersPausedStart(pl) == pl.sentPausedPlay = "true"

\* C35: a track-start event leaves the Player PAUSED when it remembers a
\* paused start and PLAYING otherwise, and what it remembers is the pause
\* flag of the play frame sent last: a play frame that is written sets it to
\* the frame's pause flag, and a play frame whose write fails leaves it as
\* it was.
C35_PausedStart ==
  [][\A p \in DOMAIN players :
       /\ (last'.op = "message" /\ PlayerEvent(p, "TRACK_START", "") \in emitted')
            => players'[p].state = (IF RemembersPausedStart(players[p]) THEN "PAUSED" ELSE "PLAYING")
       /\ PlayWritten(p, TRUE) => (RemembersPausedStart(players'[p]) <=> LastPlayFrame(p).pause)
       /\ PlayWritten(p, FALSE) => (RemembersPausedStart(players'[p]) <=> RemembersPausedStart(players[p]))]_vars

\* an event frame of Player p's guild has arrived and awaits its decode
AwaitsDecode(p) == \E t \in tasks : t.p = p /\ t.pc = "decode"
\* a frame of Player p's guild arrives in this step
FrameArrives(p) ==
  \E n \in NodeIds, payload \in FramePayloads, ok \in BOOLEAN :
    OnMessage(n, payload, ok) /\ ForGuild(payload, players[p])

\* C36: the frames of a node are applied to a Player in the order of their
\* arrival: a frame that arrives while an earlier event frame of the Player
\* still awaits its decode changes nothing of the Player before the earlier
\* frame has been applied.
C36_ArrivalOrder ==
  [][\A p \in DOMAIN players :
       (AwaitsDecode(p) /\ FrameArrives(p)) => players'[p] = players[p]]_vars

\* the frame handed to the RAW listeners in this step is of another guild
\* than Player p's
ForeignFrameArrives(p) ==
  \E n \in NodeIds, payload \in FramePayloads, ok \in BOOLEAN :
    OnMessage(n, payload, ok) /\ payload.guildId # players[p].guildId
\* the frames of Player p's guild among those handed to a socket in this step
FramesOf(p) == SelectSeq(sent', LAMBDA f : f.guildId = players[p].guildId)

PlayFrameJustWritten(p) ==
  /\ last = [op |-> "sent", id |-> p] /\ thrown = ""
  /\ players[p].state = "CONNECTED" /\ players[p].queuePosition # NullPos
\* play() is called on Player p in this step
PlayCalled(p) == last' = [op |-> "play", id |-> p]

\* C38: a play() called after an earlier play() has written its play frame,
\* and before the track start of that frame arrives, only pushes to the
\* queue: it sends no play frame and leaves the queue index where it is.
C38_SecondPlayOnlyQueues ==
  [][\A p \in DOMAIN players :
       (PlayFrameJustWritten(p) /\ PlayCalled(p))
         => /\ PlayFramesSent(p) = <<>>
            /\ players'[p].queue # players[p].queue
            /\ players'[p].queuePosition = players[p].queuePosition
            /\ ~ \E t \in tasks' : t.p = p /\ t.pc = "sent"]_vars

\* C39: a Player that is PAUSED or PLAYING has a current track: its queue
\* index is not null, whatever pause, resume, stop, clear, skip and the
\* node's events have done before.
C39_PlayingHasCurrentTrack ==
  \A p \in DOMAIN players :
    players[p].state \in {"PAUSED", "PLAYING"} => players[p].queuePosition # NullPos

\* the connectionTimeout of Player p's connect() elapses in this step and
\* rejects the call
ConnectTimesOut(p) ==
  /\ last' = [op |-> "connect_timeout", id |-> p]
  /\ players[p].connectPromise = "pending" /\ players'[p].connectPromise = "rejected"
\* connect() is called on Player p in this step
ConnectCalled(p) == last' = [op |-> "connect", id |-> p]

\* C40: a connect() rejected by its connectionTimeout does not leave the
\* Player CONNECTING: a voice state update that arrives after the rejection
\* does not make it CONNECTED, and a further connect() is accepted.
C40_TimeoutLeavesConnecting ==
  [][\A p \in DOMAIN players :
       /\ ConnectTimesOut(p) => players'[p].state # "CONNECTING"
       /\ (players[p].connectPromise = "rejected" /\ players[p].state # "CONNECTED")
            => players'[p].state # "CONNECTED"
       /\ (players[p].connectPromise = "rejected" /\ players[p].state # "DESTROYED"
             /\ players[p].state # "CONNECTED" /\ ConnectCalled(p))
            => thrown' = ""]_vars
====
